---- MODULE Spec2Model ----
(***************************************************************************)
(* CrazyWalk map generation: LocationPolygonsGenerator.generate_map and    *)
(* the Redis keys it uses as an inter-stage bus and as whole-result cache. *)
(*                                                                         *)
(* Coordinates are integer pairs <<lat, lon>> in units of 1e-5 degree on a *)
(* locally flat grid (1 unit = 111 cm).  A way is a sequence of            *)
(* coordinates; the road data a request fetches is a sequence of ways.     *)
(***************************************************************************)
EXTENDS Integers, Sequences, FiniteSets, TLC

(***************************************************************************)
(* Generic helpers                                                         *)
(***************************************************************************)
Abs(x) == IF x < 0 THEN 0 - x ELSE x

Max2(a, b) == IF a >= b THEN a ELSE b

RECURSIVE SumOver(_, _)
SumOver(f, S) ==
  IF S = {} THEN 0
  ELSE LET x == CHOOSE y \in S : TRUE IN f[x] + SumOver(f, S \ {x})

\* lexicographic order on coordinate tuples, as Python compares tuples
CoordLess(p, q) == p[1] < q[1] \/ (p[1] = q[1] /\ p[2] < q[2])

MinCoord(S) == CHOOSE p \in S : \A q \in S : q = p \/ CoordLess(p, q)

\* sorted(list(S)) for a set of coordinate tuples
RECURSIVE SortedCoords(_)
SortedCoords(S) ==
  IF S = {} THEN <<>>
  ELSE LET m == MinCoord(S) IN <<m>> \o SortedCoords(S \ {m})

\* [e for e in s if Keep[e]] for a sequence s and a set Keep of positions
RECURSIVE FilterIdx(_, _, _)
FilterIdx(s, Keep, i) ==
  IF i > Len(s) THEN <<>>
  ELSE (IF i \in Keep THEN <<s[i]>> ELSE <<>>) \o FilterIdx(s, Keep, i + 1)

Reverse(s) == [i \in 1..Len(s) |-> s[Len(s) + 1 - i]]

Rotate(s, k) == [i \in DOMAIN s |-> s[((i + k - 1) % Len(s)) + 1]]

\* every rotation of a sequence, forwards and backwards
Turns(s) ==
  {Rotate(s, k) : k \in 0..(Len(s) - 1)}
    \cup {Reverse(Rotate(s, k)) : k \in 0..(Len(s) - 1)}

\* the largest base + step * k, k in 0..m, whose square is at most n
SqrtDigit(n, base, step, m) ==
  base + step * Cardinality({k \in 1..m : (base + step * k) * (base + step * k) <= n})

\* integer square root (floor) of 0 <= n < 40500 * 40500, digit by digit in
\* steps of 3375, 225, 15 and 1
ISqrt(n) ==
  SqrtDigit(n, SqrtDigit(n, SqrtDigit(n, SqrtDigit(n, 0, 3375, 11), 225, 14), 15, 14), 1, 14)

\* round(x / d) for x >= 0, d > 0 (ties cannot occur for the values used)
RoundDiv(x, d) == (2 * x + d) \div (2 * d)

\* round(x / d) for any sign of x, d > 0
RoundDivS(x, d) == IF x >= 0 THEN RoundDiv(x, d) ELSE 0 - RoundDiv(0 - x, d)

(***************************************************************************)
(* Program constants                                                       *)
(***************************************************************************)
\* REGION_SIZES = [0.0015, 0.005, 0.01] in units of 1e-5 degree
REGION_SIZES == <<150, 500, 1000>>

\* target_spacing = 15.0 metres, in centimetres
TargetSpacing == 1500

\* one coordinate unit (1e-5 degree) in centimetres
UnitCm == 111

\* sliver threshold 2e-9 deg^2 in square units (1e-10 deg^2), doubled because
\* the shoelace sum is twice the area
SliverArea2 == 40

\* round(x, 3) keeps 1e-3 degree = 100 units
CacheCell == 100

(***************************************************************************)
(* haversine_distance: metres on the sphere; here centimetres on the flat  *)
(* grid, rounded down                                                      *)
(***************************************************************************)
haversine_distance(c1, c2) ==
  LET dlat == UnitCm * (c2[1] - c1[1])
      dlon == UnitCm * (c2[2] - c1[2])
  IN ISqrt(dlat * dlat + dlon * dlon)

(***************************************************************************)
(* Step 1: _fetch_red_lines.  ok is FALSE when all Overpass servers failed; *)
(* data is the answer already turned into ways (a sequence of coordinate   *)
(* sequences); existing is what KEY_RED_LINES holds.                       *)
(***************************************************************************)
\* consecutive pairs of one way
WaySegments(coords) == [i \in 1..(Len(coords) - 1) |-> <<coords[i], coords[i + 1]>>]

RECURSIVE FlatSegments(_, _)
FlatSegments(ways, i) ==
  IF i > Len(ways) THEN <<>>
  ELSE WaySegments(ways[i]) \o FlatSegments(ways, i + 1)

\* ways with more than one coordinate
RECURSIVE LongWays(_, _)
LongWays(ways, i) ==
  IF i > Len(ways) THEN <<>>
  ELSE (IF Len(ways[i]) > 1 THEN <<ways[i]>> ELSE <<>>) \o LongWays(ways, i + 1)

\* the seen_paths loop: keep the first occurrence of every exact path
RECURSIVE DedupPaths(_, _, _)
DedupPaths(lines, i, seen) ==
  IF i > Len(lines) THEN <<>>
  ELSE IF lines[i] \in seen THEN DedupPaths(lines, i + 1, seen)
       ELSE <<lines[i]>> \o DedupPaths(lines, i + 1, seen \cup {lines[i]})

\* a fetch that stores the new lines in place of the stored ones in every mode
fetch_red_lines_replace(ok, data, mode, existing) ==
  IF ~ok
  THEN [failed |-> TRUE, segments |-> <<>>, visual |-> <<>>]
  ELSE [failed |-> FALSE,
        segments |-> FlatSegments(LongWays(data, 1), 1),
        visual |-> LongWays(data, 1)]

\* [failed, segments, visual]: failed means nothing was saved to Redis
fetch_red_lines(ok, data, mode, existing) ==
  IF ~ok
  THEN [failed |-> TRUE, segments |-> <<>>, visual |-> <<>>]
  ELSE LET new_red_visual == LongWays(data, 1)
           final == IF mode = "expand"
                    THEN DedupPaths(existing \o new_red_visual, 1, {})
                    ELSE new_red_visual
       IN [failed |-> FALSE,
           segments |-> FlatSegments(new_red_visual, 1),
           visual |-> final]

(***************************************************************************)
(* Step 2: _identify_intersections, from what KEY_RED_LINES holds          *)
(***************************************************************************)
\* node_counts as a dict keeps first-insertion order: start, then end
RECURSIVE NodeOrder(_, _, _)
NodeOrder(segs, i, seen) ==
  IF i > Len(segs) THEN <<>>
  ELSE LET a == segs[i][1]
           b == segs[i][2]
           na == IF a \in seen THEN <<>> ELSE <<a>>
           nb == IF b \in seen \/ b = a THEN <<>> ELSE <<b>>
       IN na \o nb \o NodeOrder(segs, i + 1, seen \cup {a, b})

node_count(segs, n) ==
  Cardinality({i \in DOMAIN segs : segs[i][1] = n})
  + Cardinality({i \in DOMAIN segs : segs[i][2] = n})

\* adjacency as the set of undirected pairs the adj_list holds
AdjacencyOf(segs) == {{segs[i][1], segs[i][2]} : i \in DOMAIN segs}

Neighbors(adj, n) == {m \in UNION adj : {n, m} \in adj}

\* [blue_circles, adjacency]
identify_intersections(red_lines) ==
  LET segs == FlatSegments(red_lines, 1)
      order == NodeOrder(segs, 1, {})
      keep == {i \in DOMAIN order : node_count(segs, order[i]) # 2}
      nodes == FilterIdx(order, keep, 1)
  IN [blue_circles |->
        [i \in DOMAIN nodes |->
           [id |-> <<"node", nodes[i][1], nodes[i][2]>>, lat |-> nodes[i][1],
            lon |-> nodes[i][2],
            connections |-> node_count(segs, nodes[i])]],
      adjacency |-> AdjacencyOf(segs)]

(***************************************************************************)
(* Step 3: _create_graph_elements, from what KEY_BLUE_CIRCLES and          *)
(* KEY_ADJACENCY hold                                                      *)
(***************************************************************************)
edge_key(a, b) == {a, b}

RECURSIVE Walk(_, _, _, _, _, _, _)
\* a WalkStep that does not mark the hop it takes
WalkStepUnmarked(adj, relevant, path, curr, next_node, dist, visited) ==
  Walk(adj, relevant, Append(path, next_node), curr, next_node,
       dist + haversine_distance(curr, next_node), visited)

\* one turn of the while loop of a trace: move to next_node
WalkStep(adj, relevant, path, curr, next_node, dist, visited) ==
  Walk(adj, relevant, Append(path, next_node), curr, next_node,
       dist + haversine_distance(curr, next_node),
       visited \cup {edge_key(curr, next_node)})

\* the while loop of one trace: follow the chain until a junction or a node
\* whose adjacency is not 2; [path, dist, curr, visited]
Walk(adj, relevant, path, prev, curr, dist, visited) ==
  IF /\ curr \notin relevant
     /\ Cardinality(Neighbors(adj, curr)) = 2
     /\ Neighbors(adj, curr) \ {prev} # {}
  THEN WalkStep(adj, relevant, path, curr,
                CHOOSE n \in Neighbors(adj, curr) \ {prev} : TRUE, dist, visited)
  ELSE [path |-> path, dist |-> dist, curr |-> curr, visited |-> visited]

\* num = max(1, int(round(dist / target_spacing)))
SegmentCount(dist) == Max2(1, RoundDiv(dist, TargetSpacing))

\* the green circle at arc length rem of the hop p1 -> p2 of length seg
GreenAt(wl_id, t_idx, p1, p2, rem, seg) ==
  [id |-> <<"gc", wl_id, t_idx - 1>>,
   lat |-> IF seg > 0 THEN p1[1] + RoundDivS((p2[1] - p1[1]) * rem, seg) ELSE p1[1],
   lon |-> IF seg > 0 THEN p1[2] + RoundDivS((p2[2] - p1[2]) * rem, seg) ELSE p1[2],
   line_id |-> wl_id]

\* the placement loops: hop i of the path, next target t_idx (1-based),
\* arc length walked so far; targets[k] = step * k
RECURSIVE PlaceGreens(_, _, _, _, _, _, _)
\* a placement that puts at most one green circle on a hop
PlaceOnHopOnce(wl_id, path, dist, num, i, t_idx, curr_dist, seg, target) ==
  IF t_idx <= num - 1 /\ curr_dist + seg >= target
  THEN <<GreenAt(wl_id, t_idx, path[i], path[i + 1], target - curr_dist, seg)>>
       \o PlaceGreens(wl_id, path, dist, num, i + 1, t_idx + 1, curr_dist + seg)
  ELSE PlaceGreens(wl_id, path, dist, num, i + 1, t_idx, curr_dist + seg)

PlaceOnHop(wl_id, path, dist, num, i, t_idx, curr_dist, seg, target) ==
  IF t_idx <= num - 1 /\ curr_dist + seg >= target
  THEN <<GreenAt(wl_id, t_idx, path[i], path[i + 1], target - curr_dist, seg)>>
       \o PlaceGreens(wl_id, path, dist, num, i, t_idx + 1, curr_dist)
  ELSE PlaceGreens(wl_id, path, dist, num, i + 1, t_idx, curr_dist + seg)

PlaceGreens(wl_id, path, dist, num, i, t_idx, curr_dist) ==
  IF i > Len(path) - 1 THEN <<>>
  ELSE PlaceOnHop(wl_id, path, dist, num, i, t_idx, curr_dist,
                  haversine_distance(path[i], path[i + 1]), (dist * t_idx) \div num)

\* st with the white line of the walk w and its green circles appended
AppendLine(st, start_node, w, greens) ==
  [white_lines |-> Append(st.white_lines,
                     [id |-> Len(st.white_lines), start |-> start_node, end |-> w.curr,
                      path |-> w.path, length |-> w.dist,
                      green_count |-> Len(greens)]),
   green_circles |-> st.green_circles \o greens,
   visited |-> w.visited]

\* an AfterWalk that makes an edge of every trace
AfterWalkAlways(relevant, start_node, st, w) ==
  AppendLine(st, start_node, w,
             IF SegmentCount(w.dist) > 1
             THEN PlaceGreens(Len(st.white_lines), w.path, w.dist,
                              SegmentCount(w.dist), 1, 1, 0)
             ELSE <<>>)

\* the end of one trace: a white line when the walk reached another junction
AfterWalk(relevant, start_node, st, w) ==
  IF w.curr \in relevant /\ w.curr # start_node
  THEN AppendLine(st, start_node, w,
                  IF SegmentCount(w.dist) > 1
                  THEN PlaceGreens(Len(st.white_lines), w.path, w.dist,
                                   SegmentCount(w.dist), 1, 1, 0)
                  ELSE <<>>)
  ELSE [st EXCEPT !.visited = w.visited]

\* the body of the inner for loop for one (start_node, neighbor);
\* st = [white_lines, green_circles, visited]
TraceOne(adj, relevant, start_node, neighbor, st) ==
  IF edge_key(start_node, neighbor) \in st.visited THEN st
  ELSE AfterWalk(relevant, start_node, st,
                 Walk(adj, relevant, <<start_node, neighbor>>, start_node, neighbor,
                      haversine_distance(start_node, neighbor),
                      st.visited \cup {edge_key(start_node, neighbor)}))

\* the inner for loop over the sorted neighbours of start_node; the state
\* handed to an iteration is evaluated before the iteration
RECURSIVE TraceNeighbors(_, _, _, _, _, _)
TraceNeighbors(adj, relevant, start_node, nbrs, j, st) ==
  IF j > Len(nbrs) \/ st # st THEN st
  ELSE TraceNeighbors(adj, relevant, start_node, nbrs, j + 1,
                      TraceOne(adj, relevant, start_node, nbrs[j], st))

\* the outer for loop over the sorted junctions
RECURSIVE TraceNodes(_, _, _, _, _)
TraceNodes(adj, relevant, nodes, i, st) ==
  IF i > Len(nodes) \/ st # st THEN st
  ELSE TraceNodes(adj, relevant, nodes, i + 1,
                  TraceNeighbors(adj, relevant, nodes[i],
                                 SortedCoords(Neighbors(adj, nodes[i])), 1, st))

\* relevant_nodes: the coordinates of the blue circles
RelevantNodes(blue_circles) ==
  {<<blue_circles[i].lat, blue_circles[i].lon>> : i \in DOMAIN blue_circles}

TraceResult(st) == [white_lines |-> st.white_lines, green_circles |-> st.green_circles]

\* the junctions in the order of the blue circle list
RECURSIVE ListedNodes(_, _)
ListedNodes(blue_circles, i) ==
  IF i > Len(blue_circles) THEN <<>>
  ELSE <<<<blue_circles[i].lat, blue_circles[i].lon>>>> \o ListedNodes(blue_circles, i + 1)

\* a tracing pass that takes the junctions as listed, without sorting them
create_graph_elements_unsorted(blue_circles, adjacency) ==
  TraceResult(TraceNodes(adjacency, RelevantNodes(blue_circles),
                         ListedNodes(blue_circles, 1), 1,
                         [white_lines |-> <<>>, green_circles |-> <<>>, visited |-> {}]))

\* [white_lines, green_circles]
create_graph_elements(blue_circles, adjacency) ==
  TraceResult(TraceNodes(adjacency, RelevantNodes(blue_circles),
                         SortedCoords(RelevantNodes(blue_circles)), 1,
                         [white_lines |-> <<>>, green_circles |-> <<>>, visited |-> {}]))

(***************************************************************************)
(* networkx.minimum_cycle_basis(G) for the unweighted call the code makes: *)
(* any set of simple cycles that is a basis of the cycle space and has the *)
(* least total number of edges.  The library does not say which one it     *)
(* returns when several exist, so every one is a possible outcome.  A      *)
(* graph edge is a set of two nodes, a cycle is a set of graph edges.      *)
(***************************************************************************)
NodesOf(es) == UNION es

Degree(es, n) == Cardinality({e \in es : n \in e})

\* edges that can lie on a cycle: strip nodes of degree 1 until none is left
RECURSIVE CoreEdges(_)
CoreEdges(es) ==
  LET leaf == {e \in es : \E n \in e : Degree(es, n) = 1}
  IN IF leaf = {} THEN es ELSE CoreEdges(es \ leaf)

RECURSIVE ReachFrom(_, _)
ReachFrom(es, seen) ==
  LET more == {n \in NodesOf(es) : \E m \in seen : {n, m} \in es} \ seen
  IN IF more = {} THEN seen ELSE ReachFrom(es, seen \cup more)

IsSimpleCycle(c) ==
  /\ Cardinality(c) >= 3
  /\ \A n \in NodesOf(c) : Degree(c, n) = 2
  /\ ReachFrom(c, {CHOOSE n \in NodesOf(c) : TRUE}) = NodesOf(c)

SimpleCycles(es) == {c \in SUBSET CoreEdges(es) : IsSimpleCycle(c)}

\* sum over GF(2) of a set of cycles: the edges in an odd number of them
SymSum(T) == {e \in UNION T : Cardinality({c \in T : e \in c}) % 2 = 1}

Independent(B) == \A T \in SUBSET B : T = {} \/ SymSum(T) # {}

\* one minimum basis, by the greedy rule (shortest independent cycle first)
RECURSIVE GreedyBasis(_, _)
GreedyBasis(cycles, B) ==
  LET cand == {c \in cycles \ B : Independent(B \cup {c})}
  IN IF cand = {} THEN B
     ELSE LET c == CHOOSE x \in cand : \A y \in cand : Cardinality(x) <= Cardinality(y)
          IN GreedyBasis(cycles, B \cup {c})

\* every minimum cycle basis: a basis is minimum exactly when, for every
\* length l, it has as many cycles of length l as the greedy one
RECURSIVE BasesUpTo(_, _, _)
BasesUpTo(cycles, g, l) ==
  IF l < 3 THEN {{}}
  ELSE LET layer == {c \in cycles : Cardinality(c) = l}
           want == Cardinality({c \in g : Cardinality(c) = l})
       IN {B \cup T : B \in BasesUpTo(cycles, g, l - 1),
                      T \in {X \in SUBSET layer : Cardinality(X) = want}}

minimum_cycle_bases(es) ==
  LET cycles == SimpleCycles(es)
      g == GreedyBasis(cycles, {})
      lens == {Cardinality(c) : c \in g}
      maxlen == IF lens = {} THEN 0 ELSE CHOOSE l \in lens : \A k \in lens : k <= l
  IN {B \in BasesUpTo(cycles, g, maxlen) : Independent(B)}

\* a cycle as the node list the library returns, in cycle order; the start
\* node and direction are fixed here (the smallest node, towards its smaller
\* neighbour)
RECURSIVE CycleWalk(_, _, _, _)
CycleWalk(c, first, prev, curr) ==
  LET nxt == CHOOSE n \in NodesOf(c) : {curr, n} \in c /\ n # prev
  IN IF nxt = first THEN <<curr>>
     ELSE <<curr>> \o CycleWalk(c, first, curr, nxt)

CycleNodes(c) ==
  LET first == MinCoord(NodesOf(c))
      second == MinCoord({n \in NodesOf(c) : {first, n} \in c})
  IN <<first>> \o CycleWalk(c, first, first, second)

\* the cycles of a basis as a list; the library fixes no order, the list is
\* ordered by the cycles' node lists
RECURSIVE SeqLess(_, _, _)
SeqLess(a, b, i) ==
  IF i > Len(a) THEN i <= Len(b)
  ELSE IF i > Len(b) THEN FALSE
  ELSE IF a[i] = b[i] THEN SeqLess(a, b, i + 1)
  ELSE CoordLess(a[i], b[i])

RECURSIVE SortedCycles(_)
SortedCycles(S) ==
  IF S = {} THEN <<>>
  ELSE LET m == CHOOSE a \in S : \A b \in S : a = b \/ SeqLess(a, b, 1)
       IN <<m>> \o SortedCycles(S \ {m})

CycleList(B) == SortedCycles({CycleNodes(c) : c \in B})

(***************************************************************************)
(* Step 4: _find_polygons, from what KEY_WHITE_LINES holds.  basis is the  *)
(* list minimum_cycle_basis returned.                                      *)
(***************************************************************************)
\* nx.Graph keeps one edge per node pair: add_edge for a pair that already
\* has one overwrites its attributes, so the last white line wins
GraphEdges(white_lines) ==
  {{white_lines[i].start, white_lines[i].end} : i \in DOMAIN white_lines}

get_edge_data(white_lines, u, v) ==
  LET idx == {i \in DOMAIN white_lines :
                {white_lines[i].start, white_lines[i].end} = {u, v}}
      last == CHOOSE i \in idx : \A j \in idx : j <= i
  IN white_lines[last]

\* the part of the ring one edge contributes, oriented to start at u
RingPart(ed, u) ==
  LET path == ed.path
  IN IF path[1] = u THEN SubSeq(path, 1, Len(path) - 1)
     ELSE IF path[Len(path)] = u THEN SubSeq(Reverse(path), 1, Len(path) - 1)
     ELSE SubSeq(path, 1, Len(path) - 1)

RECURSIVE RingCoords(_, _, _)
RingCoords(white_lines, cycle, i) ==
  IF i > Len(cycle) THEN <<>>
  ELSE LET u == cycle[i]
           v == cycle[(i % Len(cycle)) + 1]
       IN RingPart(get_edge_data(white_lines, u, v), u)
          \o RingCoords(white_lines, cycle, i + 1)

\* twice the signed area of a closed ring (shoelace)
RECURSIVE Shoelace(_, _)
Shoelace(ring, i) ==
  IF i >= Len(ring) THEN 0
  ELSE ring[i][1] * ring[i + 1][2] - ring[i + 1][1] * ring[i][2]
       + Shoelace(ring, i + 1)

\* numerators of the centroid: sum of (a_i + a_{i+1}) * cross_i, k = 1 or 2
RECURSIVE CentroidSum(_, _, _)
CentroidSum(ring, k, i) ==
  IF i >= Len(ring) THEN 0
  ELSE (ring[i][k] + ring[i + 1][k])
         * (ring[i][1] * ring[i + 1][2] - ring[i + 1][1] * ring[i][2])
       + CentroidSum(ring, k, i + 1)

\* the centroid, each coordinate rounded to 5 decimals (one unit); the sums
\* are taken relative to the first vertex to keep the products small
Centroid(ring) ==
  LET o == ring[1]
      rel == [i \in DOMAIN ring |-> <<ring[i][1] - o[1], ring[i][2] - o[2]>>]
      a2 == Shoelace(rel, 1)
      sx == IF a2 < 0 THEN 0 - CentroidSum(rel, 1, 1) ELSE CentroidSum(rel, 1, 1)
      sy == IF a2 < 0 THEN 0 - CentroidSum(rel, 2, 1) ELSE CentroidSum(rel, 2, 1)
  IN <<o[1] + RoundDivS(sx, 3 * Abs(a2)), o[2] + RoundDivS(sy, 3 * Abs(a2))>>

\* twice the area of a ring
Area2(ring) ==
  Abs(Shoelace([i \in DOMAIN ring |-> <<ring[i][1] - ring[1][1], ring[i][2] - ring[1][2]>>], 1))

\* the polygon of one basis cycle, or <<>> when it is discarded as a sliver
PolygonOf(white_lines, cycle) ==
  LET body == RingCoords(white_lines, cycle, 1)
      coords == body \o <<body[1]>>
      eds == {get_edge_data(white_lines, cycle[i], cycle[(i % Len(cycle)) + 1])
                : i \in DOMAIN cycle}
      green == SumOver([i \in DOMAIN cycle |->
                 get_edge_data(white_lines, cycle[i],
                               cycle[(i % Len(cycle)) + 1]).green_count],
                 DOMAIN cycle)
      center == Centroid(coords)
  IN IF Area2(coords) < SliverArea2 THEN <<>>
     ELSE <<[id |-> <<"poly", center[1], center[2]>>,
             coords |-> coords,
             center |-> center,
             total_points |-> Len(cycle) + green,
             boundary_white_lines |-> {ed.id : ed \in eds}]>>

\* the ring of the cycle has no area: Polygon(coords) is invalid, buffer(0)
\* leaves an empty polygon and its centroid is an empty point
EmptyRing(white_lines, cycle) ==
  Area2(RingCoords(white_lines, cycle, 1) \o <<RingCoords(white_lines, cycle, 1)[1]>>) = 0

\* the loop over the cycles inside the try block.  Reading center.x of an
\* empty point raises in some versions of the geometry library and gives
\* nan in others (raises); the except clause is outside the loop, so an
\* exception ends the loop and keeps the polygons made so far
RECURSIVE PolygonsOf(_, _, _, _)
PolygonsOf(white_lines, basis, i, raises) ==
  IF i > Len(basis) THEN <<>>
  ELSE IF Len(basis[i]) < 3 THEN PolygonsOf(white_lines, basis, i + 1, raises)
  ELSE IF raises /\ EmptyRing(white_lines, basis[i]) THEN <<>>
  ELSE PolygonOf(white_lines, basis[i]) \o PolygonsOf(white_lines, basis, i + 1, raises)

\* [polygons, used_ids]
find_polygons(white_lines, basis, raises) ==
  LET polygons_data == PolygonsOf(white_lines, basis, 1, raises)
  IN [polygons |-> polygons_data,
      used_ids |-> UNION {polygons_data[i].boundary_white_lines
                            : i \in DOMAIN polygons_data}]

\* dict.get(line_id) on {wl['id']: wl for wl in white_lines}: the last one
LinesById(white_lines, id) == {i \in DOMAIN white_lines : white_lines[i].id = id}

LineById(white_lines, id) ==
  white_lines[CHOOSE i \in LinesById(white_lines, id) :
                \A j \in LinesById(white_lines, id) : j <= i]

(***************************************************************************)
(* _merge_two_polygons.  The merging pass that calls it is switched off in *)
(* _find_polygons; the function is modelled for two polygons that are      *)
(* faces with one common white line, where the union of the two rings is   *)
(* the two rings joined along the path of that line.                       *)
(***************************************************************************)
\* a ring without its closing coordinate
OpenRing(coords) == SubSeq(coords, 1, Len(coords) - 1)

\* the open ring turned so that it starts with the path
AlignedTo(ring, path) == CHOOSE R \in Turns(ring) : SubSeq(R, 1, Len(path)) = path

\* the exterior of the union of two faces that meet along the path
UnionRing(ra, rb, path) ==
  <<path[Len(path)]>> \o SubSeq(ra, Len(path) + 1, Len(ra)) \o <<path[1]>>
    \o Reverse(SubSeq(rb, Len(path) + 1, Len(rb))) \o <<path[Len(path)]>>

\* a combination that keeps every line of both polygons
CombinedLinesUnion(lines_a, lines_b) == lines_a \cup lines_b

\* combined_lines = lines_a ^ lines_b
CombinedLines(lines_a, lines_b) == (lines_a \ lines_b) \cup (lines_b \ lines_a)

\* the validation loop: a line stays when it is a known white line of
\* positive length and the coverage test keeps it; ghosts are the lines the
\* coverage test removes
ValidatedLines(combined, white_lines, ghosts) ==
  {l \in combined \ ghosts :
     LinesById(white_lines, l) # {} /\ LineById(white_lines, l).length > 0}

\* poly.get('merge_count', 1)
MergeCount(poly) == IF "merge_count" \in DOMAIN poly THEN poly.merge_count ELSE 1

MergedPolygon(poly_a, poly_b, coords, center, lines) ==
  [id |-> <<"poly", center[1], center[2]>>,
   coords |-> coords,
   center |-> center,
   total_points |-> poly_a.total_points + poly_b.total_points,
   boundary_white_lines |-> lines,
   merge_count |-> MergeCount(poly_a) + MergeCount(poly_b)]

MergedWithRing(poly_a, poly_b, coords, lines) ==
  MergedPolygon(poly_a, poly_b, coords, Centroid(coords), lines)

\* the merged polygon
merge_two_polygons(poly_a, poly_b, shared_line_id, white_lines, ghosts) ==
  MergedWithRing(poly_a, poly_b,
                 UnionRing(AlignedTo(OpenRing(poly_a.coords),
                                     LineById(white_lines, shared_line_id).path),
                           AlignedTo(OpenRing(poly_b.coords),
                                     LineById(white_lines, shared_line_id).path),
                           LineById(white_lines, shared_line_id).path),
                 ValidatedLines(CombinedLines(poly_a.boundary_white_lines,
                                              poly_b.boundary_white_lines),
                                white_lines, ghosts))

(***************************************************************************)
(* _get_blue_lines, _find_merge_candidate and _merge_small_polygons.       *)
(* The debug box of a polygon is the bounding box of a circle of radius    *)
(* 30/111000 degree around the centre and a circle of radius 15/111000     *)
(* degree whose centre is 45/111000 degree away in the label direction.    *)
(* The label direction is not modelled: the box reaches at least           *)
(* LargeRadius and at most BoxReach from the centre in every direction.    *)
(***************************************************************************)
\* max_iterations=10
MaxIterations == 10

\* large_radius = 30 / 111000 degree, 27.03 units, rounded down
LargeRadius == 27

\* offset_distance + small_radius = 60 / 111000 degree, 54.05 units, rounded up
BoxReach == 55

\* the cross product of b - a and p - a
Turn(a, b, p) == (b[1] - a[1]) * (p[2] - a[2]) - (b[2] - a[2]) * (p[1] - a[1])

\* p is on the inner side of every edge of the ring
InKernel(coords, p) ==
  \/ \A i \in 1..(Len(coords) - 1) : Turn(coords[i], coords[i + 1], p) >= 0
  \/ \A i \in 1..(Len(coords) - 1) : Turn(coords[i], coords[i + 1], p) <= 0

\* p is within the extent of the ring in both coordinates
InExtent(coords, p) ==
  /\ \E i, j \in DOMAIN coords : coords[i][1] <= p[1] /\ p[1] <= coords[j][1]
  /\ \E i, j \in DOMAIN coords : coords[i][2] <= p[2] /\ p[2] <= coords[j][2]

\* the corners of the square that reaches h from the centre
CornersAround(center, h) ==
  {<<center[1] + dx, center[2] + dy>> : dx \in {-h, h}, dy \in {-h, h}}

\* poly.contains(debug_box): false when the smallest box the code can make
\* leaves the extent of the polygon, true when the largest box it can make
\* is inside the polygon, either one otherwise; one unit is allowed for the
\* rounding of the centre
contains_debug_box(poly) ==
  IF \E p \in CornersAround(poly.center, LargeRadius - 1) : ~InExtent(poly.coords, p)
  THEN {FALSE}
  ELSE IF \A p \in CornersAround(poly.center, BoxReach + 1) : InKernel(poly.coords, p)
  THEN {TRUE}
  ELSE BOOLEAN

\* _get_blue_lines: every boundary line when the debug box does not fit
get_blue_lines(poly, fits) == IF fits THEN {} ELSE poly.boundary_white_lines

\* blue_lines: polygon id -> blue line ids, for the polygons that have some;
\* fits[k] is what poly.contains(debug_box) gave for the k-th polygon
BluePolygons(polygons, fits) ==
  {k \in DOMAIN polygons : get_blue_lines(polygons[k], fits[k]) # {}}

blue_lines_map(polygons, fits) ==
  [id \in {polygons[k].id : k \in BluePolygons(polygons, fits)} |->
     get_blue_lines(polygons[CHOOSE k \in BluePolygons(polygons, fits) :
                               /\ polygons[k].id = id
                               /\ \A j \in BluePolygons(polygons, fits) :
                                    polygons[j].id = id => j <= k],
                    FALSE)]

\* line_to_polys[line_id], as positions in the list
Sharing(polygons, line_id) ==
  {k \in DOMAIN polygons : line_id \in polygons[k].boundary_white_lines}

\* the blue lines of small_poly that another polygon has too
SharedBlueLines(small_poly, polygons, blue_lines) ==
  {l \in blue_lines[small_poly.id] :
     \E k \in Sharing(polygons, l) : polygons[k].id # small_poly.id}

FirstSharing(small_poly, polygons, l) ==
  CHOOSE k \in Sharing(polygons, l) :
    /\ polygons[k].id # small_poly.id
    /\ \A j \in Sharing(polygons, l) : polygons[j].id # small_poly.id => k <= j

\* _find_merge_candidate: <<position of the neighbour, shared line>>, or <<>>
find_merge_candidate(small_poly, polygons, blue_lines) ==
  IF small_poly.id \notin DOMAIN blue_lines THEN <<>>
  ELSE IF SharedBlueLines(small_poly, polygons, blue_lines) = {} THEN <<>>
  ELSE <<FirstSharing(small_poly, polygons,
           CHOOSE l \in SharedBlueLines(small_poly, polygons, blue_lines) :
             \A m \in SharedBlueLines(small_poly, polygons, blue_lines) : l <= m),
         CHOOSE l \in SharedBlueLines(small_poly, polygons, blue_lines) :
           \A m \in SharedBlueLines(small_poly, polygons, blue_lines) : l <= m>>

\* merged_ids, removed_ids and new_polygons at the start of a pass; kept_ids
\* are the ids of the polygons appended to new_polygons as they are
EmptyPass == [merged_ids |-> {}, removed_ids |-> {}, new_polygons |-> <<>>,
              kept_ids |-> {}]

\* the branch "if poly['id'] in blue_lines"
MergeOrRemove(polygons, poly, cand, white_lines, st) ==
  IF cand # <<>> /\ polygons[cand[1]].id \notin st.merged_ids \cup st.removed_ids
  THEN [st EXCEPT !.merged_ids = @ \cup {poly.id, polygons[cand[1]].id},
                  !.new_polygons =
                     Append(@, merge_two_polygons(poly, polygons[cand[1]], cand[2],
                                                  white_lines, {}))]
  ELSE [st EXCEPT !.removed_ids = @ \cup {poly.id}]

\* the body of "for poly in polygons"
PassStep(polygons, blue_lines, white_lines, poly, st) ==
  IF poly.id \in st.merged_ids \cup st.removed_ids THEN st
  ELSE IF poly.id \in DOMAIN blue_lines
  THEN MergeOrRemove(polygons, poly, find_merge_candidate(poly, polygons, blue_lines),
                     white_lines, st)
  ELSE [st EXCEPT !.new_polygons = Append(@, poly), !.kept_ids = @ \cup {poly.id}]

RECURSIVE PassFrom(_, _, _, _, _)
PassFrom(polygons, blue_lines, white_lines, i, st) ==
  IF i > Len(polygons) THEN st
  ELSE PassFrom(polygons, blue_lines, white_lines, i + 1,
                PassStep(polygons, blue_lines, white_lines, polygons[i], st))

\* the end of a pass: "if not merged_ids: break" leaves the list as it was
PassEnd(lp, st) ==
  IF st.merged_ids = {}
  THEN [phase |-> "returned", polygons |-> lp.polygons, iteration |-> lp.iteration,
        input |-> lp.polygons, kept_ids |-> st.kept_ids,
        merged_ids |-> st.merged_ids, removed_ids |-> st.removed_ids]
  ELSE [phase |-> IF lp.iteration + 1 < MaxIterations THEN "run" ELSE "exhausted",
        polygons |-> st.new_polygons, iteration |-> lp.iteration + 1,
        input |-> lp.polygons, kept_ids |-> st.kept_ids,
        merged_ids |-> st.merged_ids, removed_ids |-> st.removed_ids]

\* one iteration of _merge_small_polygons on the loop state lp
merge_pass(lp, blue_lines, white_lines) ==
  IF DOMAIN blue_lines = {}
  THEN [lp EXCEPT !.phase = "returned", !.input = lp.polygons,
                  !.kept_ids = {lp.polygons[k].id : k \in DOMAIN lp.polygons},
                  !.merged_ids = {}, !.removed_ids = {}]
  ELSE PassEnd(lp, PassFrom(lp.polygons, blue_lines, white_lines, 1, EmptyPass))

(***************************************************************************)
(* generate_map after step 4: orphan filter, total_points, connectivity    *)
(* and the sanitising pass.  The stats_* display fields, the groups and    *)
(* the poster grid are left out.                                           *)
(***************************************************************************)
\* round(x, 7): coordinates are whole multiples of 1e-5 degree, which
\* rounding to 7 decimals leaves as they are
Round7(x) == x

RoundKey(p) == <<Round7(p[1]), Round7(p[2])>>

SeqFilter(s, Keep(_)) == FilterIdx(s, {i \in DOMAIN s : Keep(s[i])}, 1)

\* a graph that keeps the white lines no polygon uses
AllLines(white_lines, used_ids) == white_lines

\* --- FILTER ORPHANED ELEMENTS ---
UsedLines(white_lines, used_ids) ==
  SeqFilter(white_lines, LAMBDA wl : wl.id \in used_ids)

UsedGreens(green_circles, used_ids) ==
  SeqFilter(green_circles, LAMBDA gc : gc.line_id \in used_ids)

\* a recount that takes the vertices of the ring for the junctions
recalc_total_points_ring(poly, white_lines, blue_circles) ==
  LET known == {l \in poly.boundary_white_lines : LinesById(white_lines, l) # {}}
  IN SumOver([l \in known |-> LineById(white_lines, l).green_count], known)
     + Cardinality({poly.coords[i] : i \in DOMAIN poly.coords})

\* --- RECALCULATE total_points ---
recalc_total_points(poly, white_lines, blue_circles) ==
  LET known == {l \in poly.boundary_white_lines : LinesById(white_lines, l) # {}}
      green_total == SumOver([l \in known |-> LineById(white_lines, l).green_count], known)
      polygon_nodes == UNION {{RoundKey(LineById(white_lines, l).start),
                               RoundKey(LineById(white_lines, l).end)} : l \in known}
      blue_circle_coords == {RoundKey(<<blue_circles[i].lat, blue_circles[i].lon>>)
                               : i \in DOMAIN blue_circles}
  IN green_total + Cardinality(polygon_nodes \cap blue_circle_coords)

\* --- RECALCULATE CONNECTIONS ---: the white lines that start or end at node
LinesAt(white_lines, node) ==
  {i \in DOMAIN white_lines : white_lines[i].start = node \/ white_lines[i].end = node}

active_connections(white_lines, node) ==
  Cardinality({i \in DOMAIN white_lines : white_lines[i].start = node})
  + Cardinality({i \in DOMAIN white_lines : white_lines[i].end = node})

\* --- CALCULATE POLYGON CONNECTIONS FOR BLUE CIRCLES ---
\* coord_to_bc_id: a later circle with the same rounded key replaces an earlier
CircleAtKey(blue_circles, key) ==
  LET idx == {i \in DOMAIN blue_circles :
                RoundKey(<<blue_circles[i].lat, blue_circles[i].lon>>) = key}
  IN IF idx = {} THEN {} ELSE {blue_circles[CHOOSE i \in idx : \A j \in idx : j <= i].id}

bc_poly_map(bc_id, blue_circles, white_lines, polygons) ==
  {polygons[k].id : k \in {k \in DOMAIN polygons :
     \E l \in polygons[k].boundary_white_lines :
        /\ LinesById(white_lines, l) # {}
        /\ \/ bc_id \in CircleAtKey(blue_circles, RoundKey(LineById(white_lines, l).start))
           \/ bc_id \in CircleAtKey(blue_circles, RoundKey(LineById(white_lines, l).end))}}

\* is_saturated of the full graph
is_saturated(active, polygons_count) == active = polygons_count /\ active > 0

\* --- CALCULATE POLYGON CONNECTIONS FOR WHITE LINES ---
wl_poly_map(line_id, polygons) ==
  {polygons[k].id : k \in {k \in DOMAIN polygons : line_id \in polygons[k].boundary_white_lines}}

\* --- ... FOR GREEN CIRCLES ---: "if parent_line_id and parent_line_id in
\* wl_poly_map" is false for the line whose id is 0
green_polygon_ids(gc, white_lines, polygons) ==
  IF gc.line_id # 0 /\ LinesById(white_lines, gc.line_id) # {}
  THEN wl_poly_map(gc.line_id, polygons)
  ELSE {}

\* --- CALCULATE NEIGHBOR POLYGONS ---, from the sanitised white lines
neighbor_polygon_ids(poly, lines) ==
  UNION {LineById(lines, l).connected_polygon_ids
           : l \in {l \in poly.boundary_white_lines : LinesById(lines, l) # {}}}
  \ {poly.id}

\* the full graph of one successful attempt
enrich(blue_in, white_in, green_in, polygons_in, used_ids) ==
  LET white_lines == UsedLines(white_in, used_ids)
      green_circles == UsedGreens(green_in, used_ids)
      polys1 == [k \in DOMAIN polygons_in |->
                   [polygons_in[k] EXCEPT
                      !.total_points = recalc_total_points(polygons_in[k], white_lines, blue_in)]]
      valid_polygon_ids == {polys1[k].id : k \in DOMAIN polys1}
      connected == SeqFilter(blue_in,
                     LAMBDA bc : active_connections(white_lines, <<bc.lat, bc.lon>>) > 0)
      valid_blue_circle_coords ==
        UNION {{RoundKey(white_lines[i].start), RoundKey(white_lines[i].end)}
                 : i \in DOMAIN white_lines}
      blue1 == SeqFilter(connected,
                 LAMBDA bc : RoundKey(<<bc.lat, bc.lon>>) \in valid_blue_circle_coords)
      blue_circles ==
        [i \in DOMAIN blue1 |->
           LET bc == blue1[i]
               act == active_connections(white_lines, <<bc.lat, bc.lon>>)
               pids == bc_poly_map(bc.id, blue1, white_lines, polys1)
           IN [id |-> bc.id, lat |-> bc.lat, lon |-> bc.lon,
               connections |-> bc.connections,
               active_connections |-> act,
               connected_white_lines |->
                 {white_lines[j].id : j \in LinesAt(white_lines, <<bc.lat, bc.lon>>)},
               connected_polygon_ids |-> pids \cap valid_polygon_ids,
               connected_polygons_count |-> Cardinality(pids \cap valid_polygon_ids),
               is_saturated |-> is_saturated(act, Cardinality(pids))]]
      lines ==
        [i \in DOMAIN white_lines |->
           LET wl == white_lines[i]
               pids == wl_poly_map(wl.id, polys1) \cap valid_polygon_ids
           IN [id |-> wl.id, start |-> wl.start, end |-> wl.end, path |-> wl.path,
               length |-> wl.length, green_count |-> wl.green_count,
               connected_polygon_ids |-> pids,
               connected_polygons_count |-> Cardinality(pids)]]
      greens ==
        [i \in DOMAIN green_circles |->
           LET gc == green_circles[i]
           IN [id |-> gc.id, lat |-> gc.lat, lon |-> gc.lon, line_id |-> gc.line_id,
               connected_polygon_ids |->
                 green_polygon_ids(gc, white_lines, polys1) \cap valid_polygon_ids]]
      polygons ==
        [k \in DOMAIN polys1 |->
           [id |-> polys1[k].id, coords |-> polys1[k].coords,
            center |-> polys1[k].center,
            total_points |-> polys1[k].total_points,
            boundary_white_lines |-> polys1[k].boundary_white_lines,
            neighbor_polygon_ids |-> neighbor_polygon_ids(polys1[k], lines)]]
  IN [blue_circles |-> blue_circles, white_lines |-> lines,
      green_circles |-> greens, polygons |-> polygons]

(***************************************************************************)
(* generate_map: the visibility filter for 'initial' and 'expand'          *)
(***************************************************************************)
Dist2(c, lat, lon) == (c.lat - lat) * (c.lat - lat) + (c.lon - lon) * (c.lon - lon)

\* the loop "if dist < min_dist": the first circle at the least distance;
\* <<>> when the list is empty
Nearest(circles, lat, lon) ==
  IF circles = <<>> THEN <<>>
  ELSE <<circles[CHOOSE i \in DOMAIN circles :
            \A j \in DOMAIN circles :
               \/ Dist2(circles[i], lat, lon) < Dist2(circles[j], lat, lon)
               \/ (Dist2(circles[i], lat, lon) = Dist2(circles[j], lat, lon) /\ i <= j)]>>

\* connected_poly_ids; {} stands for None (an empty set is not acted on either)
anchor_polygon_ids(mode, lat, lon, restored, g) ==
  IF mode = "initial"
  THEN IF restored # {} THEN restored
       ELSE LET n == Nearest(g.green_circles, lat, lon)
            IN IF n = <<>> THEN {} ELSE n[1].connected_polygon_ids
  ELSE IF mode = "expand"
  THEN LET n == Nearest(g.blue_circles, lat, lon)
       IN IF n = <<>> THEN {} ELSE n[1].connected_polygon_ids
  ELSE {}

\* is_saturated of a circle shown in the filtered view
filtered_is_saturated(total_connections, visible_polygon_count) ==
  total_connections = visible_polygon_count

\* a circle created for a visible endpoint that has no blue circle
new_circle(key) ==
  [id |-> <<"BC", key[1], key[2]>>, lat |-> key[1], lon |-> key[2],
   connections |-> 2, active_connections |-> 2, connected_white_lines |-> {},
   connected_polygon_ids |-> {}, connected_polygons_count |-> 0,
   is_saturated |-> FALSE]

filter_blue_circle(bc, filtered_polygon_ids) ==
  LET visible_polygon_count == Cardinality(bc.connected_polygon_ids \cap filtered_polygon_ids)
  IN [bc EXCEPT !.lat = Round7(bc.lat), !.lon = Round7(bc.lon),
                !.connected_polygons_count = visible_polygon_count,
                !.is_saturated = filtered_is_saturated(bc.connections, visible_polygon_count)]

filter_white_line(wl, filtered_polygon_ids) ==
  [wl EXCEPT !.start = RoundKey(wl.start), !.end = RoundKey(wl.end),
             !.connected_polygon_ids = wl.connected_polygon_ids \cap filtered_polygon_ids,
             !.connected_polygons_count =
                Cardinality(wl.connected_polygon_ids \cap filtered_polygon_ids)]

filter_green_circle(gc, filtered_polygon_ids) ==
  [gc EXCEPT !.connected_polygon_ids = gc.connected_polygon_ids \cap filtered_polygon_ids]

\* the coordinates the filter takes for endpoints of visible lines
visible_blue_coords_starts(lines) == {lines[i].start : i \in DOMAIN lines}

visible_blue_coords(lines) ==
  UNION {{lines[i].start, lines[i].end} : i \in DOMAIN lines}

\* the coordinates the filter finds a blue circle at
existing_coords_none(blue_circles) == {}

existing_coords(blue_circles) ==
  {RoundKey(<<blue_circles[i].lat, blue_circles[i].lon>>) : i \in DOMAIN blue_circles}

\* the block "if connected_poly_ids:"
filter_graph(connected_poly_ids, g) ==
  LET filtered_polygons == SeqFilter(g.polygons, LAMBDA p : p.id \in connected_poly_ids)
      filtered_polygon_ids == {filtered_polygons[k].id : k \in DOMAIN filtered_polygons}
      visible_line_ids == UNION {filtered_polygons[k].boundary_white_lines
                                   : k \in DOMAIN filtered_polygons}
      kept_lines == SeqFilter(g.white_lines, LAMBDA wl : wl.id \in visible_line_ids)
      filtered_white_lines ==
        [i \in DOMAIN kept_lines |-> filter_white_line(kept_lines[i], filtered_polygon_ids)]
      visible == visible_blue_coords(filtered_white_lines)
      kept_circles == SeqFilter(g.blue_circles,
                        LAMBDA bc : RoundKey(<<bc.lat, bc.lon>>) \in visible)
      missing == SortedCoords(visible \ existing_coords(g.blue_circles))
      filtered_blue_circles ==
        [i \in DOMAIN kept_circles |-> filter_blue_circle(kept_circles[i], filtered_polygon_ids)]
        \o [i \in DOMAIN missing |-> new_circle(missing[i])]
      line_ids_set == {filtered_white_lines[i].id : i \in DOMAIN filtered_white_lines}
      kept_greens == SeqFilter(g.green_circles, LAMBDA gc : gc.line_id \in line_ids_set)
      filtered_green_circles ==
        [i \in DOMAIN kept_greens |-> filter_green_circle(kept_greens[i], filtered_polygon_ids)]
  IN [blue_circles |-> filtered_blue_circles, white_lines |-> filtered_white_lines,
      green_circles |-> filtered_green_circles, polygons |-> filtered_polygons]

\* whether generate_map runs the filter block
filter_applies(mode, lat, lon, restored, g) ==
  /\ mode \in {"initial", "expand"} /\ g.polygons # <<>>
  /\ anchor_polygon_ids(mode, lat, lon, restored, g) # {}

\* a filter that runs whether or not an anchor was found
visible_graph_always(mode, lat, lon, restored, g) ==
  filter_graph(anchor_polygon_ids(mode, lat, lon, restored, g), g)

\* the graph generate_map puts in result_data
visible_graph(mode, lat, lon, restored, g) ==
  IF filter_applies(mode, lat, lon, restored, g)
  THEN filter_graph(anchor_polygon_ids(mode, lat, lon, restored, g), g)
  ELSE g

(***************************************************************************)
(* The Overpass servers: the ways of the world that have a node inside the *)
(* bounding box of the request                                             *)
(***************************************************************************)
InBox(p, lat, lon, size) ==
  /\ lat - size <= p[1] /\ p[1] <= lat + size
  /\ lon - size <= p[2] /\ p[2] <= lon + size

Overpass(ways, lat, lon, size) ==
  SeqFilter(ways, LAMBDA w : \E i \in DOMAIN w : InBox(w[i], lat, lon, size))

(***************************************************************************)
(* Redis: the inter-stage keys and the whole-result cache                  *)
(***************************************************************************)
\* a list key that is missing loads as None, which every reader treats like
\* an empty list
EmptyRedis ==
  [red_lines |-> <<>>, blue_circles |-> <<>>, adjacency |-> {},
   white_lines |-> <<>>, green_circles |-> <<>>, polygons |-> <<>>]

\* round(lat, 3), round(lon, 3)
Round3(x) == RoundDiv(x, CacheCell) * CacheCell

cache_key(lat, lon) == <<Round3(lat), Round3(lon)>>

NoGraph == [blue_circles |-> <<>>, white_lines |-> <<>>, green_circles |-> <<>>,
            polygons |-> <<>>]

Bundle(g) == [error |-> "", blue_circles |-> g.blue_circles, white_lines |-> g.white_lines,
              green_circles |-> g.green_circles, polygons |-> g.polygons]

\* a result that is no bundle, with the fields of an empty bundle
ErrorResult(e) == [Bundle(NoGraph) EXCEPT !.error = e]

\* meters = int(size * 111000) for a size in units of 1e-5 degree
Meters(size) == (size * UnitCm) \div 100

\* what the message of an error names: the coordinate, and for NO_ROADS the
\* size of the last region in metres
ErrorMessage(e, lat, lon, size) ==
  [lat |-> lat, lon |-> lon,
   meters |-> IF e = "NO_ROADS" THEN <<Meters(size)>> ELSE <<>>]

\* {"error": e, "message": ...}
ErrorReturn(e, lat, lon, size) ==
  ErrorResult(e) @@ [message |-> ErrorMessage(e, lat, lon, size)]

(***************************************************************************)
(* generate_map, one attempt at a time.  Each stage saves its output to    *)
(* Redis and the next stage loads it from there.                           *)
(***************************************************************************)
\* stage 1: [r, empty]: Redis afterwards, and whether no roads came back
StageFetch(ways, req, net_ok, size, r) ==
  LET f == fetch_red_lines(net_ok, Overpass(ways, req.lat, req.lon, size), req.mode,
                           r.red_lines)
  IN [r |-> IF f.failed THEN r ELSE [r EXCEPT !.red_lines = f.visual],
      empty |-> f.visual = <<>> /\ f.segments = <<>>]

\* stage 2: [r, blue_circles]
StageIdentify(r) ==
  LET ii == identify_intersections(r.red_lines)
  IN [r |-> [r EXCEPT !.blue_circles = ii.blue_circles, !.adjacency = ii.adjacency],
      blue_circles |-> ii.blue_circles]

\* stage 3: [r, white_lines, green_circles]
StageTrace(r) ==
  LET g == create_graph_elements(r.blue_circles, r.adjacency)
  IN [r |-> [r EXCEPT !.white_lines = g.white_lines, !.green_circles = g.green_circles],
      white_lines |-> g.white_lines, green_circles |-> g.green_circles]

\* the outcome of stage 4 for one basis
StagePolygonsOf(r, fp) ==
  [r |-> [r EXCEPT !.polygons = fp.polygons],
   polygons |-> fp.polygons, used_ids |-> fp.used_ids]

\* stage 4: every [r, polygons, used_ids] the libraries allow: the choice of
\* the basis, and whether the centroid of an empty polygon raises
StagePolygons(r) ==
  {StagePolygonsOf(r, find_polygons(r.white_lines, CycleList(B), raises))
     : B \in minimum_cycle_bases(GraphEdges(r.white_lines)), raises \in BOOLEAN}

\* the attempts loop over REGION_SIZES, from attempt i on: every outcome
\* [error, r, full, size] where full is the enriched graph of the successful
\* attempt and size the region of the last attempt
RECURSIVE Attempts(_, _, _, _)
Attempts(ways, req, i, r) ==
  LET f == StageFetch(ways, req, req.net, REGION_SIZES[i], r)
  IN IF f.empty
     THEN IF i < Len(REGION_SIZES) THEN Attempts(ways, req, i + 1, f.r)
          ELSE {[error |-> "NO_ROADS", r |-> f.r, full |-> NoGraph,
                 size |-> REGION_SIZES[i]]}
     ELSE LET s2 == StageIdentify(f.r)
              s3 == StageTrace(s2.r)
          IN UNION {IF s4.polygons = <<>>
                    THEN IF i < Len(REGION_SIZES) THEN Attempts(ways, req, i + 1, s4.r)
                         ELSE {[error |-> "NO_POLYGONS", r |-> s4.r, full |-> NoGraph,
                                size |-> REGION_SIZES[i]]}
                    ELSE {[error |-> "", r |-> s4.r, size |-> REGION_SIZES[i],
                           full |-> enrich(s2.blue_circles, s3.white_lines,
                                           s3.green_circles, s4.polygons, s4.used_ids)]}
                      : s4 \in StagePolygons(s3.r)}

\* a cache check that does not look at the mode
cache_hit_any_mode(req, c) ==
  /\ ~req.force_rebuild
  /\ <<Round3(req.lat), Round3(req.lon)>> \in DOMAIN c

\* the cache check of generate_map
cache_hit(req, c) ==
  /\ req.mode = "initial" /\ ~req.force_rebuild
  /\ cache_key(req.lat, req.lon) \in DOMAIN c

\* the cache after a successful generation
cache_save(req, c, result) ==
  IF req.mode = "initial"
  THEN [k \in DOMAIN c \cup {cache_key(req.lat, req.lon)} |->
          IF k = cache_key(req.lat, req.lon) THEN result ELSE c[k]]
  ELSE c

\* generate_map: every outcome [result, redis, cache, hit, filtered, full];
\* hit: the cached bundle was returned; filtered: the filter block ran;
\* full: the enriched graph before the filter
generate_map(ways, req, r, c) ==
  IF cache_hit(req, c)
  THEN {[result |-> c[cache_key(req.lat, req.lon)], redis |-> r, cache |-> c,
         hit |-> TRUE, filtered |-> FALSE, full |-> NoGraph]}
  ELSE {IF a.error # ""
        THEN [result |-> ErrorReturn(a.error, req.lat, req.lon, a.size),
              redis |-> a.r, cache |-> c,
              hit |-> FALSE, filtered |-> FALSE, full |-> NoGraph]
        ELSE LET result == Bundle(visible_graph(req.mode, req.lat, req.lon,
                                                req.restored, a.full))
             IN [result |-> result, redis |-> a.r, cache |-> cache_save(req, c, result),
                 hit |-> FALSE,
                 filtered |-> filter_applies(req.mode, req.lat, req.lon, req.restored,
                                             a.full),
                 full |-> a.full]
          : a \in Attempts(ways, req, 1, r)}

(***************************************************************************)
(* The worlds: road networks the Overpass servers may hold, the places     *)
(* players ask for, and the polygon ids a client may hold from an earlier  *)
(* session                                                                 *)
(***************************************************************************)
\* two triangles sharing the road u-v, with a stub road at either end
Kite ==
  [name |-> "Kite",
   ways |-> << <<<<50, 115>>, <<75, 115>>, <<100, 100>>, <<125, 115>>, <<150, 115>>>>,
               <<<<75, 115>>, <<100, 130>>, <<125, 115>>>>,
               <<<<100, 100>>, <<100, 130>>>> >>,
   locs |-> {<<90, 108>>, <<100, 116>>, <<100, 100>>},
   lists |-> {{<<"poly", 92, 115>>}, {<<"poly", 108, 115>>},
              {<<"poly", 92, 115>>, <<"poly", 108, 115>>}, {<<"poly", 0, 0>>}}]

\* three triangles on the common road u-v: u = (100,100), v = (100,140), the
\* third corners at (80,120), (120,120), (160,120), each with a stub road
Book ==
  [name |-> "Book",
   ways |-> << <<<<60, 120>>, <<80, 120>>, <<100, 100>>, <<120, 120>>, <<130, 120>>>>,
               <<<<80, 120>>, <<100, 140>>, <<120, 120>>>>,
               <<<<100, 100>>, <<100, 140>>>>,
               <<<<100, 100>>, <<160, 120>>, <<100, 140>>>>,
               <<<<160, 120>>, <<180, 120>>>> >>,
   locs |-> {<<100, 120>>, <<100, 100>>},
   lists |-> {}]

\* a hub (100,100) with five roads to the junctions of a network whose roads
\* cross on bridges, and a stub road at the hub
Bridges ==
  [name |-> "Bridges",
   ways |-> << <<<<100, 100>>, <<160, 100>>>>, <<<<100, 100>>, <<120, 135>>>>,
               <<<<100, 100>>, <<160, 160>>>>, <<<<100, 100>>, <<70, 70>>>>,
               <<<<100, 100>>, <<100, 160>>>>, <<<<160, 100>>, <<120, 135>>>>,
               <<<<160, 100>>, <<160, 160>>>>, <<<<160, 100>>, <<70, 70>>>>,
               <<<<120, 135>>, <<100, 160>>>>, <<<<160, 160>>, <<100, 160>>>>,
               <<<<70, 70>>, <<100, 160>>>>, <<<<100, 100>>, <<90, 110>>>> >>,
   locs |-> {<<100, 100>>},
   lists |-> {}]

\* two neighbourhoods 500 units apart, each two triangles on a common road
Twin ==
  [name |-> "Twin",
   ways |-> << <<<<50, 115>>, <<75, 115>>, <<100, 100>>, <<125, 115>>, <<150, 115>>>>,
               <<<<75, 115>>, <<100, 130>>, <<125, 115>>>>,
               <<<<100, 100>>, <<100, 130>>>>,
               <<<<550, 115>>, <<575, 115>>, <<600, 100>>, <<625, 115>>, <<650, 115>>>>,
               <<<<575, 115>>, <<600, 130>>, <<625, 115>>>>,
               <<<<600, 100>>, <<600, 130>>>> >>,
   locs |-> {<<100, 116>>, <<350, 116>>, <<600, 116>>},
   lists |-> {}]

Worlds == {Kite, Book, Bridges, Twin}

\* the roads of Kite, used as the base of the next worlds
KiteWays ==
  << <<<<50, 115>>, <<75, 115>>, <<100, 100>>, <<125, 115>>, <<150, 115>>>>,
     <<<<75, 115>>, <<100, 130>>, <<125, 115>>>>,
     <<<<100, 100>>, <<100, 130>>>> >>

\* u = (100,100) and v = (100,130) joined by a long winding road, by two
\* short roads through x = (110,115) and by three through y = (120,105) and
\* z = (120,125); x, y and z each have a stub road
Detour ==
  [name |-> "Detour",
   ways |-> << <<<<100, 100>>, <<60, 105>>, <<60, 125>>, <<100, 130>>>>,
               <<<<100, 100>>, <<110, 115>>>>, <<<<110, 115>>, <<100, 130>>>>,
               <<<<100, 100>>, <<120, 105>>>>, <<<<120, 105>>, <<120, 125>>>>,
               <<<<120, 125>>, <<100, 130>>>>,
               <<<<110, 115>>, <<113, 115>>>>, <<<<120, 105>>, <<130, 100>>>>,
               <<<<120, 125>>, <<130, 130>>>> >>,
   locs |-> {<<100, 115>>, <<80, 115>>},
   lists |-> {}]

\* Kite with two roads mapped twice: the dead end (50,115)-(75,115), and the
\* last segment of the road (150,115)-(170,115)-(190,115)
Overlap ==
  [name |-> "Overlap",
   ways |-> KiteWays \o << <<<<50, 115>>, <<75, 115>>>>,
                           <<<<150, 115>>, <<170, 115>>, <<190, 115>>>>,
                           <<<<170, 115>>, <<190, 115>>>> >>,
   locs |-> {<<90, 108>>, <<100, 116>>},
   lists |-> {}]

\* Kite with a loop road that leaves the dead end (50,115) and returns to it
Lasso ==
  [name |-> "Lasso",
   ways |-> KiteWays \o << <<<<50, 115>>, <<40, 105>>, <<30, 115>>, <<40, 125>>,
                             <<50, 115>>>> >>,
   locs |-> {<<90, 108>>, <<100, 116>>},
   lists |-> {}]

\* A = (100,100), B = (100,120), C = (100,140) on one line and D = (130,120),
\* every pair joined by a road; the road A-C passes over B without a node
Flat ==
  [name |-> "Flat",
   ways |-> << <<<<100, 100>>, <<100, 120>>>>, <<<<100, 120>>, <<100, 140>>>>,
               <<<<100, 100>>, <<100, 140>>>>, <<<<100, 100>>, <<130, 120>>>>,
               <<<<100, 120>>, <<130, 120>>>>, <<<<100, 140>>, <<130, 120>>>> >>,
   locs |-> {<<110, 120>>},
   lists |-> {}]

\* three roads meeting at (100,130), no cycle; nothing is mapped near (5000,5000)
Tree ==
  [name |-> "Tree",
   ways |-> << <<<<100, 100>>, <<100, 130>>>>, <<<<100, 130>>, <<120, 140>>>>,
               <<<<100, 130>>, <<80, 140>>>> >>,
   locs |-> {<<100, 115>>, <<5000, 5000>>},
   lists |-> {}]

\* the four sides of a square as four roads, the side (100,100)-(100,150)
\* with a node at its middle; nothing else
Square ==
  [name |-> "Square",
   ways |-> << <<<<100, 100>>, <<100, 125>>, <<100, 150>>>>,
               <<<<100, 150>>, <<150, 150>>>>, <<<<150, 150>>, <<150, 100>>>>,
               <<<<150, 100>>, <<100, 100>>>> >>,
   locs |-> {<<125, 125>>},
   lists |-> {}]

\* the three sides of a triangle as three roads without inner nodes, each
\* shorter than one and a half waypoint spacings; nothing else
Triangle ==
  [name |-> "Triangle",
   ways |-> << <<<<100, 100>>, <<100, 115>>>>, <<<<100, 115>>, <<112, 108>>>>,
               <<<<112, 108>>, <<100, 100>>>> >>,
   locs |-> {<<104, 108>>},
   lists |-> {}]

\* two blocks in the shape of a cross: the roads around the block between
\* (120,100) and (140,160) pass over the roads around the block between
\* (100,120) and (160,140) without a common node; three corners of either
\* block have a stub road
Cross ==
  [name |-> "Cross",
   ways |-> << <<<<120, 100>>, <<120, 160>>>>, <<<<120, 160>>, <<140, 160>>>>,
               <<<<140, 160>>, <<140, 100>>, <<120, 100>>>>,
               <<<<120, 100>>, <<120, 90>>>>, <<<<120, 160>>, <<120, 170>>>>,
               <<<<140, 160>>, <<140, 170>>>>,
               <<<<100, 120>>, <<160, 120>>>>, <<<<160, 120>>, <<160, 140>>>>,
               <<<<160, 140>>, <<100, 140>>, <<100, 120>>>>,
               <<<<100, 120>>, <<90, 120>>>>, <<<<160, 120>>, <<170, 120>>>>,
               <<<<160, 140>>, <<170, 140>>>> >>,
   locs |-> {<<130, 130>>},
   lists |-> {}]

\* a triangle of three short roads, none long enough for a waypoint, with a
\* stub road at every corner
Pennant ==
  [name |-> "Pennant",
   ways |-> << <<<<100, 100>>, <<100, 115>>>>, <<<<100, 115>>, <<112, 108>>>>,
               <<<<112, 108>>, <<100, 100>>>>,
               <<<<100, 100>>, <<95, 95>>>>, <<<<100, 115>>, <<95, 120>>>>,
               <<<<112, 108>>, <<118, 108>>>> >>,
   locs |-> {<<104, 108>>},
   lists |-> {}]

\* a block of 120 by 120 units with corners P = (100,100), Q = (100,220),
\* R = (220,220), S = (220,100) and a narrow triangle Q, R, E = (160,240) on
\* its side Q-R; P, S and E have a stub road
Annex ==
  [name |-> "Annex",
   ways |-> << <<<<100, 100>>, <<100, 220>>>>, <<<<100, 220>>, <<220, 220>>>>,
               <<<<220, 220>>, <<220, 100>>>>, <<<<220, 100>>, <<100, 100>>>>,
               <<<<100, 220>>, <<160, 240>>>>, <<<<160, 240>>, <<220, 220>>>>,
               <<<<100, 100>>, <<90, 90>>>>, <<<<220, 100>>, <<230, 90>>>>,
               <<<<160, 240>>, <<160, 250>>>> >>,
   locs |-> {<<160, 200>>},
   lists |-> {}]

GraphWorlds == {Detour, Overlap, Lasso, Flat, Tree, Square, Triangle, Cross, Pennant}

MaxRequests == 2

RestoreLists(w) == {{}} \cup w.lists

Requests(w) ==
  {[lat |-> l[1], lon |-> l[2], mode |-> "initial", force_rebuild |-> fr,
    restored |-> rs, net |-> TRUE]
     : l \in w.locs, fr \in BOOLEAN, rs \in RestoreLists(w)}
  \cup
  {[lat |-> l[1], lon |-> l[2], mode |-> "expand", force_rebuild |-> FALSE,
    restored |-> {}, net |-> TRUE] : l \in w.locs}

NoRequest == [lat |-> 0, lon |-> 0, mode |-> "", force_rebuild |-> FALSE,
              restored |-> {}, net |-> TRUE]

Threads == {1, 2}

NoLocals == [blue_circles |-> <<>>, white_lines |-> <<>>, green_circles |-> <<>>,
             polygons |-> <<>>, used_ids |-> {}]

VARIABLES world, redis, cache, served, last, merged, loop, pc, rq, attempt, loc, out

vars == <<world, redis, cache, served, last, merged, loop, pc, rq, attempt, loc, out>>

seq_vars == <<world, redis, cache, served, last, merged, loop>>

thread_vars == <<pc, rq, attempt, loc, out>>

\* no call of _merge_two_polygons yet
NoMerge == [poly_a |-> <<>>, poly_b |-> <<>>, shared_line_id |-> -1, result |-> <<>>]

\* no call of _merge_small_polygons so far
NoLoop == [phase |-> "idle", polygons |-> <<>>, iteration |-> 0, input |-> <<>>,
           kept_ids |-> {}, merged_ids |-> {}, removed_ids |-> {}]

NoLast == [req |-> NoRequest, result |-> ErrorResult("NONE"), hit |-> FALSE,
           filtered |-> FALSE, full |-> NoGraph]

\* the server with no request in progress
Init ==
  /\ world \in Worlds
  /\ redis = EmptyRedis
  /\ cache = <<>>
  /\ served = 0
  /\ last = NoLast
  /\ merged = NoMerge
  /\ loop = NoLoop
  /\ pc = [t \in Threads |-> "idle"]
  /\ rq = [t \in Threads |-> NoRequest]
  /\ attempt = [t \in Threads |-> 1]
  /\ loc = [t \in Threads |-> NoLocals]
  /\ out = [t \in Threads |-> ErrorResult("NONE")]

\* one request served from start to end
Serve(req) ==
  /\ served < MaxRequests
  /\ \E o \in generate_map(world.ways, req, redis, cache) :
       /\ redis' = o.redis
       /\ cache' = o.cache
       /\ last' = [req |-> req, result |-> o.result, hit |-> o.hit,
                   filtered |-> o.filtered, full |-> o.full]
  /\ served' = served + 1
  /\ UNCHANGED <<world, merged, loop, thread_vars>>

Next == \E req \in Requests(world) : Serve(req)

Spec == Init /\ [][Next]_vars

\* the same server in front of the road networks of GraphWorlds
InitGraph ==
  /\ world \in GraphWorlds
  /\ redis = EmptyRedis
  /\ cache = <<>>
  /\ served = 0
  /\ last = NoLast
  /\ merged = NoMerge
  /\ loop = NoLoop
  /\ pc = [t \in Threads |-> "idle"]
  /\ rq = [t \in Threads |-> NoRequest]
  /\ attempt = [t \in Threads |-> 1]
  /\ loc = [t \in Threads |-> NoLocals]
  /\ out = [t \in Threads |-> ErrorResult("NONE")]

SpecGraph == InitGraph /\ [][Next]_vars

(***************************************************************************)
(* Calls of _merge_two_polygons on the polygons a generation left in Redis *)
(***************************************************************************)
\* worlds whose polygons are faces
MergeWorlds == {Overlap, Lasso}

\* what the coverage test may remove: nothing, or one line
GhostSets(lines) == {{}} \cup {{l} : l \in lines}

InitMerge ==
  /\ world \in MergeWorlds
  /\ redis = EmptyRedis
  /\ cache = <<>>
  /\ served = 0
  /\ last = NoLast
  /\ merged = NoMerge
  /\ loop = NoLoop
  /\ pc = [t \in Threads |-> "idle"]
  /\ rq = [t \in Threads |-> NoRequest]
  /\ attempt = [t \in Threads |-> 1]
  /\ loc = [t \in Threads |-> NoLocals]
  /\ out = [t \in Threads |-> ErrorResult("NONE")]

\* one call: two polygons with exactly one common boundary line
Merge ==
  /\ \E i, j \in DOMAIN redis.polygons :
        \E l \in redis.polygons[i].boundary_white_lines :
           \E ghosts \in GhostSets(redis.polygons[i].boundary_white_lines
                                     \cup redis.polygons[j].boundary_white_lines) :
              /\ i # j
              /\ redis.polygons[i].boundary_white_lines
                   \cap redis.polygons[j].boundary_white_lines = {l}
              /\ merged' = [poly_a |-> redis.polygons[i], poly_b |-> redis.polygons[j],
                            shared_line_id |-> l,
                            result |-> merge_two_polygons(redis.polygons[i],
                                         redis.polygons[j], l, redis.white_lines, ghosts)]
  /\ UNCHANGED <<world, redis, cache, served, last, loop, thread_vars>>

NextMerge ==
  \/ \E req \in Requests(world) : Serve(req)
  \/ Merge

SpecMerge == InitMerge /\ [][NextMerge]_vars

(***************************************************************************)
(* Calls of _merge_small_polygons on the polygons a generation left in     *)
(* Redis, one iteration of its loop at a time                              *)
(***************************************************************************)
\* worlds whose polygons are faces that share at most one white line
LoopWorlds == {Kite, Pennant, Annex}

InitLoop ==
  /\ world \in LoopWorlds
  /\ redis = EmptyRedis
  /\ cache = <<>>
  /\ served = 0
  /\ last = NoLast
  /\ merged = NoMerge
  /\ loop = NoLoop
  /\ pc = [t \in Threads |-> "idle"]
  /\ rq = [t \in Threads |-> NoRequest]
  /\ attempt = [t \in Threads |-> 1]
  /\ loc = [t \in Threads |-> NoLocals]
  /\ out = [t \in Threads |-> ErrorResult("NONE")]

\* the lists with the entries of list in any order: the order of the cycles
\* minimum_cycle_basis returns, and so that of the polygons, is not specified
Orders(list) ==
  {[i \in DOMAIN list |-> list[f[i]]] :
     f \in {g \in [DOMAIN list -> DOMAIN list] :
              \A a, b \in DOMAIN list : g[a] = g[b] => a = b}}

\* the call _merge_small_polygons(polygons_data, white_lines_map)
StartLoop ==
  /\ loop.phase = "idle" /\ redis.polygons # <<>>
  /\ \E ps \in Orders(redis.polygons) :
        loop' = [NoLoop EXCEPT !.phase = "run", !.polygons = ps]
  /\ UNCHANGED <<world, redis, cache, served, last, merged, thread_vars>>

\* one iteration of the loop
LoopPass ==
  /\ loop.phase = "run"
  /\ \E fits \in [DOMAIN loop.polygons -> BOOLEAN] :
        /\ \A k \in DOMAIN loop.polygons : fits[k] \in contains_debug_box(loop.polygons[k])
        /\ loop' = merge_pass(loop, blue_lines_map(loop.polygons, fits), redis.white_lines)
  /\ UNCHANGED <<world, redis, cache, served, last, merged, thread_vars>>

NextLoop ==
  \/ \E req \in Requests(world) : loop.phase = "idle" /\ Serve(req)
  \/ StartLoop
  \/ LoopPass

SpecLoop == InitLoop /\ [][NextLoop]_vars

(***************************************************************************)
(* Two requests handled by two threads of the threaded HTTP server: the    *)
(* stages of generate_map interleave                                       *)
(***************************************************************************)
\* the road networks of the two-thread server: Twin, where a request between
\* the neighbourhoods needs a larger region, and Tree, where no attempt succeeds
ConcWorlds == {Twin, Tree}

\* both requests have arrived; they are for different rounded coordinates
InitConc ==
  /\ world \in ConcWorlds
  /\ redis = EmptyRedis
  /\ cache = <<>>
  /\ served = 0
  /\ last = NoLast
  /\ merged = NoMerge
  /\ loop = NoLoop
  /\ \E r1, r2 \in Requests(world) :
        /\ r1.lat < r2.lat
        /\ cache_key(r1.lat, r1.lon) # cache_key(r2.lat, r2.lon)
        /\ rq = [t \in Threads |-> IF t = 1 THEN r1 ELSE r2]
  /\ pc = [t \in Threads |-> "start"]
  /\ attempt = [t \in Threads |-> 1]
  /\ loc = [t \in Threads |-> NoLocals]
  /\ out = [t \in Threads |-> ErrorResult("NONE")]

\* an attempts loop that gives up after the second region size
RetryTwice(t, e) ==
  IF attempt[t] < 2
  THEN /\ attempt' = [attempt EXCEPT ![t] = attempt[t] + 1]
       /\ pc' = [pc EXCEPT ![t] = "fetch"]
       /\ out' = out
  ELSE /\ attempt' = attempt
       /\ pc' = [pc EXCEPT ![t] = "done"]
       /\ out' = [out EXCEPT ![t] = ErrorReturn(e, rq[t].lat, rq[t].lon,
                                                 REGION_SIZES[attempt[t]])]

\* the end of an attempt that found nothing: the next size, or the error
Retry(t, e) ==
  IF attempt[t] < Len(REGION_SIZES)
  THEN /\ attempt' = [attempt EXCEPT ![t] = attempt[t] + 1]
       /\ pc' = [pc EXCEPT ![t] = "fetch"]
       /\ out' = out
  ELSE /\ attempt' = attempt
       /\ pc' = [pc EXCEPT ![t] = "done"]
       /\ out' = [out EXCEPT ![t] = ErrorReturn(e, rq[t].lat, rq[t].lon,
                                                 REGION_SIZES[attempt[t]])]

\* the cache check
Begin(t) ==
  /\ pc[t] = "start"
  /\ IF cache_hit(rq[t], cache)
     THEN /\ out' = [out EXCEPT ![t] = cache[cache_key(rq[t].lat, rq[t].lon)]]
          /\ pc' = [pc EXCEPT ![t] = "done"]
     ELSE /\ out' = out
          /\ pc' = [pc EXCEPT ![t] = "fetch"]
  /\ UNCHANGED <<seq_vars, rq, attempt, loc>>

\* _fetch_red_lines
Fetch(t) ==
  /\ pc[t] = "fetch"
  /\ LET f == StageFetch(world.ways, rq[t], rq[t].net, REGION_SIZES[attempt[t]], redis)
     IN /\ redis' = f.r
        /\ IF f.empty THEN Retry(t, "NO_ROADS")
           ELSE /\ pc' = [pc EXCEPT ![t] = "identify"]
                /\ UNCHANGED <<attempt, out>>
  /\ UNCHANGED <<world, merged, loop, cache, served, last, rq, loc>>

\* _identify_intersections
Identify(t) ==
  /\ pc[t] = "identify"
  /\ LET s2 == StageIdentify(redis)
     IN /\ redis' = s2.r
        /\ loc' = [loc EXCEPT ![t].blue_circles = s2.blue_circles]
  /\ pc' = [pc EXCEPT ![t] = "trace"]
  /\ UNCHANGED <<world, merged, loop, cache, served, last, rq, attempt, out>>

\* _create_graph_elements
Trace(t) ==
  /\ pc[t] = "trace"
  /\ LET s3 == StageTrace(redis)
     IN /\ redis' = s3.r
        /\ loc' = [loc EXCEPT ![t].white_lines = s3.white_lines,
                              ![t].green_circles = s3.green_circles]
  /\ pc' = [pc EXCEPT ![t] = "polygons"]
  /\ UNCHANGED <<world, merged, loop, cache, served, last, rq, attempt, out>>

\* _find_polygons
Polygons(t) ==
  /\ pc[t] = "polygons"
  /\ \E s4 \in StagePolygons(redis) :
        /\ redis' = s4.r
        /\ IF s4.polygons = <<>>
           THEN Retry(t, "NO_POLYGONS") /\ loc' = loc
           ELSE /\ loc' = [loc EXCEPT ![t].polygons = s4.polygons,
                                      ![t].used_ids = s4.used_ids]
                /\ pc' = [pc EXCEPT ![t] = "finish"]
                /\ UNCHANGED <<attempt, out>>
  /\ UNCHANGED <<world, merged, loop, cache, served, last, rq>>

\* the rest of generate_map: enrichment, the filter, the cache save
Finish(t) ==
  /\ pc[t] = "finish"
  /\ LET full == enrich(loc[t].blue_circles, loc[t].white_lines, loc[t].green_circles,
                        loc[t].polygons, loc[t].used_ids)
         result == Bundle(visible_graph(rq[t].mode, rq[t].lat, rq[t].lon,
                                        rq[t].restored, full))
     IN /\ out' = [out EXCEPT ![t] = result]
        /\ cache' = cache_save(rq[t], cache, result)
  /\ pc' = [pc EXCEPT ![t] = "done"]
  /\ UNCHANGED <<world, merged, loop, redis, served, last, rq, attempt, loc>>

NextConc ==
  \E t \in Threads :
     \/ Begin(t)
     \/ Fetch(t)
     \/ Identify(t)
     \/ Trace(t)
     \/ Polygons(t)
     \/ Finish(t)

SpecConc == InitConc /\ [][NextConc]_vars

(***************************************************************************)
(* Properties of the served bundles                                        *)
(***************************************************************************)
PolygonIds(g) == {g.polygons[k].id : k \in DOMAIN g.polygons}

LineIds(g) == {g.white_lines[i].id : i \in DOMAIN g.white_lines}

CircleKeys(g) == {<<g.blue_circles[i].lat, g.blue_circles[i].lon>> : i \in DOMAIN g.blue_circles}

\* the edges of g that have the junction bc as an endpoint
EdgesAt(g, bc) ==
  {i \in DOMAIN g.white_lines :
     \/ g.white_lines[i].start = <<bc.lat, bc.lon>>
     \/ g.white_lines[i].end = <<bc.lat, bc.lon>>}

\* the edge with index i of g is on the boundary of a polygon of g
OnSomePolygon(g, i) ==
  \E k \in DOMAIN g.polygons : g.white_lines[i].id \in g.polygons[k].boundary_white_lines

\* this step served a request
Served == served' = served + 1

\* C2: an INITIAL request with a non-empty restore list is answered with
\* exactly the polygons a generation for it produces whose ids are in the
\* list, whatever was served before
C2_RestoreListVerbatim ==
  [][(Served /\ last'.req.mode = "initial" /\ last'.req.restored # {}
        /\ last'.result.error = "")
       => \E a \in Attempts(world.ways, last'.req, 1, redis) :
             /\ a.error = ""
             /\ PolygonIds(last'.result) = PolygonIds(a.full) \cap last'.req.restored]_vars

\* C3: an EXPAND request never returns the cached bundle and leaves the
\* whole-result cache as it was
C3_CacheOnlyInitial ==
  [][(Served /\ last'.req.mode = "expand") => (~last'.hit /\ cache' = cache)]_vars

\* an EXPAND request was answered while the cache held a bundle for its
\* rounded coordinate
C3_Witness ==
  /\ last.req.mode = "expand" /\ last.result.error = ""
  /\ cache_key(last.req.lat, last.req.lon) \in DOMAIN cache
  /\ cache[cache_key(last.req.lat, last.req.lon)] # last.result

\* C4: every polygon, edge, junction and waypoint of a filtered bundle is one
\* of the full graph computed before the filter
C4_FilteredSubset ==
  last.filtered =>
    /\ \A k \in DOMAIN last.result.polygons :
         \E j \in DOMAIN last.full.polygons :
            /\ last.full.polygons[j].id = last.result.polygons[k].id
            /\ last.full.polygons[j].coords = last.result.polygons[k].coords
    /\ \A k \in DOMAIN last.result.white_lines :
         \E j \in DOMAIN last.full.white_lines :
            /\ last.full.white_lines[j].id = last.result.white_lines[k].id
            /\ last.full.white_lines[j].path = last.result.white_lines[k].path
    /\ \A k \in DOMAIN last.result.blue_circles :
         \E j \in DOMAIN last.full.blue_circles :
            /\ last.full.blue_circles[j].id = last.result.blue_circles[k].id
            /\ last.full.blue_circles[j].lat = last.result.blue_circles[k].lat
            /\ last.full.blue_circles[j].lon = last.result.blue_circles[k].lon
    /\ \A k \in DOMAIN last.result.green_circles :
         \E j \in DOMAIN last.full.green_circles :
            /\ last.full.green_circles[j].id = last.result.green_circles[k].id
            /\ last.full.green_circles[j].line_id = last.result.green_circles[k].line_id

\* the filter kept some polygons and dropped others
C4_Witness ==
  /\ last.filtered
  /\ last.result.polygons # <<>>
  /\ Len(last.result.polygons) < Len(last.full.polygons)

\* C5: in a filtered bundle both endpoints of every edge are junctions of the
\* bundle and the parent edge of every waypoint is an edge of the bundle
C5_FilteredClosed ==
  last.filtered =>
    /\ \A k \in DOMAIN last.result.white_lines :
         /\ last.result.white_lines[k].start \in CircleKeys(last.result)
         /\ last.result.white_lines[k].end \in CircleKeys(last.result)
    /\ \A k \in DOMAIN last.result.green_circles :
         last.result.green_circles[k].line_id \in LineIds(last.result)

\* the filter kept some edges and waypoints and dropped others
C5_Witness ==
  /\ last.filtered
  /\ last.result.white_lines # <<>> /\ last.result.green_circles # <<>>
  /\ Len(last.result.white_lines) < Len(last.full.white_lines)
  /\ Len(last.result.green_circles) < Len(last.full.green_circles)

\* C6: in every bundle each junction's active_connections is the number of
\* edges of the bundle that end at the junction
C6_ActiveConnectionsCount ==
  last.result.error = "" =>
    \A k \in DOMAIN last.result.blue_circles :
       last.result.blue_circles[k].active_connections
         = Cardinality(EdgesAt(last.result, last.result.blue_circles[k]))

\* C8: a junction is_saturated exactly when each of its active edges is on the
\* boundary of a polygon of the bundle
C8_SaturatedIffEdgesBordered ==
  last.result.error = "" =>
    \A k \in DOMAIN last.result.blue_circles :
       last.result.blue_circles[k].is_saturated
         <=> \A i \in EdgesAt(last.result, last.result.blue_circles[k]) :
                OnSomePolygon(last.result, i)

\* C10: every polygon id a junction, edge, waypoint or polygon of a bundle
\* refers to is the id of a polygon of that bundle
C10_NoStalePolygonIds ==
  last.result.error = "" =>
    /\ \A k \in DOMAIN last.result.blue_circles :
         last.result.blue_circles[k].connected_polygon_ids \subseteq PolygonIds(last.result)
    /\ \A k \in DOMAIN last.result.white_lines :
         last.result.white_lines[k].connected_polygon_ids \subseteq PolygonIds(last.result)
    /\ \A k \in DOMAIN last.result.green_circles :
         last.result.green_circles[k].connected_polygon_ids \subseteq PolygonIds(last.result)
    /\ \A k \in DOMAIN last.result.polygons :
         last.result.polygons[k].neighbor_polygon_ids \subseteq PolygonIds(last.result)

\* C7: every edge of a bundle is on the boundary of at most two polygons of
\* the bundle
C7_EdgeOnAtMostTwoPolygons ==
  last.result.error = "" =>
    \A i \in DOMAIN last.result.white_lines :
       /\ Cardinality({k \in DOMAIN last.result.polygons :
             last.result.white_lines[i].id
               \in last.result.polygons[k].boundary_white_lines}) \in 0..2
       /\ last.result.white_lines[i].connected_polygons_count \in 0..2

\* C9: a junction that is_saturated in the filtered bundle was is_saturated in
\* the full graph before the filter
C9_FilterNeverSaturates ==
  last.filtered =>
    \A k \in DOMAIN last.result.blue_circles :
       last.result.blue_circles[k].is_saturated =>
         \E j \in DOMAIN last.full.blue_circles :
            /\ last.full.blue_circles[j].id = last.result.blue_circles[k].id
            /\ last.full.blue_circles[j].is_saturated

\* C1: each of two concurrent requests for different coordinates returns a
\* bundle it returns when it runs alone
C1_ConcurrentRequestsIndependent ==
  \A t \in Threads :
     pc[t] = "done" =>
       out[t] \in {o.result : o \in generate_map(world.ways, rq[t], EmptyRedis, <<>>)}

(***************************************************************************)
(* Junction detection and tracing, read from what the stages left in Redis *)
(***************************************************************************)
Junctions == RelevantNodes(redis.blue_circles)

\* the segment e is a hop of the path
OnPath(path, e) == \E k \in 1..(Len(path) - 1) : {path[k], path[k + 1]} = e

\* the trace that leaves the junction s towards its neighbour n
TraceFrom(s, n) == Walk(redis.adjacency, Junctions, <<s, n>>, s, n, 0, {})

\* C11: a coordinate is a junction exactly when the number of distinct
\* coordinates a segment joins it to is not 2, duplicate segments included
C11_JunctionIffDegreeNotTwo ==
  \A n \in NodesOf(redis.adjacency) :
     n \in Junctions <=> Cardinality(Neighbors(redis.adjacency, n)) # 2

\* C12: every raw segment lies on the path of at most one edge of a tracing
\* pass
C12_SegmentOnAtMostOneEdge ==
  \A e \in redis.adjacency :
     Cardinality({i \in DOMAIN redis.white_lines :
                     OnPath(redis.white_lines[i].path, e)}) <= 1

\* an edge over a chain of several segments was traced, and its far end is a
\* junction from which the chain is met again
C12_Witness ==
  \E i \in DOMAIN redis.white_lines :
     /\ Len(redis.white_lines[i].path) > 2
     /\ redis.white_lines[i].end \in Junctions
     /\ \E j \in DOMAIN redis.white_lines : j > i

\* C13: every edge starts and ends at junctions, the end is not the start,
\* and a trace that returns to its start or stops at a coordinate that is
\* not a junction left no edge
C13_EdgesJoinDistinctJunctions ==
  /\ \A i \in DOMAIN redis.white_lines :
        /\ redis.white_lines[i].start \in Junctions
        /\ redis.white_lines[i].end \in Junctions
        /\ redis.white_lines[i].end # redis.white_lines[i].start
  /\ \A s \in Junctions :
        \A n \in Neighbors(redis.adjacency, s) :
           (TraceFrom(s, n).curr = s \/ TraceFrom(s, n).curr \notin Junctions)
             => \A i \in DOMAIN redis.white_lines :
                   redis.white_lines[i].path # TraceFrom(s, n).path

\* edges were made next to a trace that returns to its start, or next to one
\* that stops at a coordinate that is not a junction
C13_Witness ==
  /\ redis.white_lines # <<>>
  /\ \E s \in Junctions :
        \E n \in Neighbors(redis.adjacency, s) :
           TraceFrom(s, n).curr = s \/ TraceFrom(s, n).curr \notin Junctions

(***************************************************************************)
(* Polygon extraction, read from what the stages left in Redis             *)
(***************************************************************************)
\* the cycle of a polygon: the graph edges of its boundary lines
BoundaryCycle(poly) ==
  {{LineById(redis.white_lines, l).start, LineById(redis.white_lines, l).end}
     : l \in poly.boundary_white_lines}

PolygonCycles == {BoundaryCycle(redis.polygons[k]) : k \in DOMAIN redis.polygons}

\* the length of a set of cycles: every cycle's edges at their arc length
CycleLength(c) ==
  SumOver([e \in c |->
             redis.white_lines[
               CHOOSE i \in DOMAIN redis.white_lines :
                 /\ {redis.white_lines[i].start, redis.white_lines[i].end} = e
                 /\ \A j \in DOMAIN redis.white_lines :
                       {redis.white_lines[j].start, redis.white_lines[j].end} = e
                         => j <= i].length], c)

BasisLength(B) == SumOver([c \in B |-> CycleLength(c)], B)

\* the cycle bases among a set of simple cycles: independent sets of the
\* dimension of the cycle space
BasesOfDim(cycles, dim) ==
  {B \in SUBSET cycles : Cardinality(B) = dim /\ Independent(B)}

BasesAmong(cycles) == BasesOfDim(cycles, Cardinality(GreedyBasis(cycles, {})))

CycleBases == BasesAmong(SimpleCycles(GraphEdges(redis.white_lines)))

\* P is one of the bases and no basis is shorter
ShortestAmong(P, bases) ==
  /\ P \in bases
  /\ \A B \in bases : BasisLength(P) <= BasisLength(B)

\* every cycle of the basis became a polygon
AllCyclesKept(bases) ==
  /\ redis.polygons # <<>>
  /\ \E B \in bases : Len(redis.polygons) = Cardinality(B)

\* C14: when every cycle of the basis became a polygon, the polygons' cycles
\* are a cycle basis of the edge graph of least total edge length
C14_BasisMinimalByLength ==
  AllCyclesKept(CycleBases) => ShortestAmong(PolygonCycles, CycleBases)

\* the waypoints of the bundle g on the edge with this id
WaypointsOn(g, line_id) ==
  {i \in DOMAIN g.green_circles : g.green_circles[i].line_id = line_id}

\* the junctions of the bundle g at an end of a boundary edge of poly
JunctionsOn(g, poly) ==
  {k \in DOMAIN g.blue_circles :
     \E i \in DOMAIN g.white_lines :
        /\ g.white_lines[i].id \in poly.boundary_white_lines
        /\ <<g.blue_circles[k].lat, g.blue_circles[k].lon>>
             \in {g.white_lines[i].start, g.white_lines[i].end}}

\* C15: total_points of a polygon of a returned bundle is the number of
\* waypoints on its boundary edges plus the number of junctions on its cycle
C15_TotalPoints ==
  last.result.error = "" =>
    \A k \in DOMAIN last.result.polygons :
       last.result.polygons[k].total_points
         = SumOver([l \in last.result.polygons[k].boundary_white_lines |->
                      Cardinality(WaypointsOn(last.result, l))],
                   last.result.polygons[k].boundary_white_lines)
           + Cardinality(JunctionsOn(last.result, last.result.polygons[k]))

\* a polygon with a boundary edge that is a chain of several segments and
\* carries waypoints
C15_Witness ==
  \E k \in DOMAIN last.result.polygons :
     \E i \in DOMAIN last.result.white_lines :
        /\ last.result.white_lines[i].id \in last.result.polygons[k].boundary_white_lines
        /\ Len(last.result.white_lines[i].path) > 2
        /\ WaypointsOn(last.result, last.result.white_lines[i].id) # {}

\* the waypoints in Redis whose parent is the edge with this id
GreensOf(line_id) ==
  {i \in DOMAIN redis.green_circles : redis.green_circles[i].line_id = line_id}

\* C16: an edge of arc length L has exactly max(1, round(L / 15)) - 1
\* waypoints, numbered from 0, its green_count is that number, and every
\* waypoint has an edge as its parent
C16_WaypointCount ==
  /\ \A i \in DOMAIN redis.white_lines :
        /\ Cardinality(GreensOf(redis.white_lines[i].id))
             = SegmentCount(redis.white_lines[i].length) - 1
        /\ redis.white_lines[i].green_count
             = SegmentCount(redis.white_lines[i].length) - 1
        /\ {redis.green_circles[k].id : k \in GreensOf(redis.white_lines[i].id)}
             = {<<"gc", redis.white_lines[i].id, n>>
                  : n \in 0..(SegmentCount(redis.white_lines[i].length) - 2)}
  /\ \A k \in DOMAIN redis.green_circles :
        \E i \in DOMAIN redis.white_lines :
           redis.white_lines[i].id = redis.green_circles[k].line_id

\* an edge over several segments with several waypoints next to an edge
\* with none
C16_Witness ==
  /\ \E i \in DOMAIN redis.white_lines :
        /\ Len(redis.white_lines[i].path) > 2
        /\ Cardinality(GreensOf(redis.white_lines[i].id)) > 2
  /\ \E i \in DOMAIN redis.white_lines : GreensOf(redis.white_lines[i].id) = {}

(***************************************************************************)
(* The three graph stages as a function of the segment list                *)
(***************************************************************************)
\* the segment list in other orders: every rotation, forwards and backwards
Reorderings(segs) == Turns(segs)

\* the tracing pass on the junctions and adjacency of one detection pass
TraceOf(ii) == create_graph_elements(ii.blue_circles, ii.adjacency)

\* the edges as (start, end, path)
EdgeTriples(white_lines) ==
  {<<white_lines[i].start, white_lines[i].end, white_lines[i].path>>
     : i \in DOMAIN white_lines}

RingsOf(polygons) == {polygons[k].coords : k \in DOMAIN polygons}

\* the sets of rings polygon extraction can give for these edges
RingSets(white_lines) ==
  {RingsOf(find_polygons(white_lines, CycleList(B), raises).polygons)
     : B \in minimum_cycle_bases(GraphEdges(white_lines)), raises \in BOOLEAN}

SameGraph(white_lines, other) ==
  /\ EdgeTriples(other) = EdgeTriples(white_lines)
  /\ RingSets(other) = RingSets(white_lines)

\* C17: junction detection, tracing and polygon extraction on the segments
\* in any other order give the edges (start, end, path) and the polygon
\* rings they gave on the order they were fetched in
C17_OrderIndependent ==
  \A segs \in Reorderings(FlatSegments(redis.red_lines, 1)) :
     SameGraph(redis.white_lines, TraceOf(identify_intersections(segs)).white_lines)

\* polygons were made, over a chain of several segments, and another order
\* of the segments lists the junctions in another order
C17_Witness ==
  /\ redis.polygons # <<>>
  /\ \E i \in DOMAIN redis.white_lines : Len(redis.white_lines[i].path) > 2
  /\ \E segs \in Reorderings(FlatSegments(redis.red_lines, 1)) :
        identify_intersections(segs).blue_circles # redis.blue_circles

\* C18: a generation that ends without a bundle returns an error result
\* that names the size of the region last tried
C18_ErrorCarriesRegionSize ==
  last.result.error \in {"NO_ROADS", "NO_POLYGONS"}
    => last.result.message.meters = <<Meters(REGION_SIZES[Len(REGION_SIZES)])>>

\* the polygon of every cycle of the basis B whose ring can be built is
\* among the polygons in Redis
GoodCyclesKept(B) ==
  \A c \in B :
     PolygonOf(redis.white_lines, CycleNodes(c)) # <<>>
       => \E k \in DOMAIN redis.polygons :
             redis.polygons[k] = PolygonOf(redis.white_lines, CycleNodes(c))[1]

\* C19: polygon extraction leaves in Redis the polygon of every cycle of the
\* basis it took whose ring can be built, whatever happened to the ring of
\* another cycle
C19_OnlyFailedCycleOmitted ==
  \E B \in minimum_cycle_bases(GraphEdges(redis.white_lines)) : GoodCyclesKept(B)

\* C20: the boundary lines of a polygon merged from two polygons do not hold
\* the line the two were merged through, which is on both boundaries
C20_SharedEdgeRemoved ==
  merged # NoMerge =>
    (merged.shared_line_id \in merged.poly_a.boundary_white_lines
                                 \cap merged.poly_b.boundary_white_lines
       => merged.shared_line_id \notin merged.result.boundary_white_lines)

\* a merge that kept every line of the two boundaries but the common one
C20_Witness ==
  /\ merged # NoMerge
  /\ merged.shared_line_id \in merged.poly_a.boundary_white_lines
                                 \cap merged.poly_b.boundary_white_lines
  /\ merged.result.boundary_white_lines
       = (merged.poly_a.boundary_white_lines \cup merged.poly_b.boundary_white_lines)
           \ {merged.shared_line_id}
  /\ Cardinality(merged.result.boundary_white_lines) >= 4

(***************************************************************************)
(* The pipeline on a closed loop of roads with nothing attached            *)
(***************************************************************************)
\* C22: from the sides of a square with a node at the middle of one side the
\* stages make 4 junctions, 4 edges, one of them over two segments, and 1
\* polygon with 4 boundary edges
C22_SquareWithMidpoint ==
  (world = Square /\ served > 0) =>
    /\ Len(redis.blue_circles) = 4
    /\ Len(redis.white_lines) = 4
    /\ Cardinality({i \in DOMAIN redis.white_lines :
                      Len(redis.white_lines[i].path) = 3}) = 1
    /\ Len(redis.polygons) = 1
    /\ \A k \in DOMAIN redis.polygons :
          Cardinality(redis.polygons[k].boundary_white_lines) = 4

\* C23: from the sides of a triangle without inner nodes the stages make 3
\* junctions, 3 edges and 1 polygon with total_points 3
C23_TriangleLoop ==
  (world = Triangle /\ served > 0) =>
    /\ Len(redis.blue_circles) = 3
    /\ Len(redis.white_lines) = 3
    /\ Len(redis.polygons) = 1
    /\ \A k \in DOMAIN redis.polygons : redis.polygons[k].total_points = 3

(***************************************************************************)
(* Identifiers within one bundle                                           *)
(***************************************************************************)
\* no two entries of the list have the same id
DistinctIds(list) ==
  \A i, j \in DOMAIN list : list[i].id = list[j].id => i = j

\* C24: in every bundle returned without an error no two polygons, no two
\* edges, no two junctions and no two waypoints have the same id (ids of
\* different kinds are written differently: poly_.., a number, lat_lon or
\* BC_.., gc_..)
C24_IdsDistinct ==
  (served > 0 /\ last.result.error = "") =>
    /\ DistinctIds(last.result.polygons)
    /\ DistinctIds(last.result.white_lines)
    /\ DistinctIds(last.result.blue_circles)
    /\ DistinctIds(last.result.green_circles)

(***************************************************************************)
(* The visibility filter without an anchor                                 *)
(***************************************************************************)
\* the last request was generated, not served from the cache, and neither a
\* restore-list nor the nearest waypoint or junction gave polygon ids
NoAnchor ==
  /\ served > 0 /\ ~last.hit /\ last.result.error = ""
  /\ anchor_polygon_ids(last.req.mode, last.req.lat, last.req.lon,
                        last.req.restored, last.full) = {}

\* C25: when no anchor polygon set is resolved for a request, the bundle
\* returned is the full graph exactly as enrichment produced it
C25_NoAnchorNoFilter == NoAnchor => last.result = Bundle(last.full)

\* an initial request in a graph with polygons and no waypoint at all
C25_Witness ==
  /\ NoAnchor /\ last.req.mode = "initial"
  /\ last.full.polygons # <<>> /\ last.full.green_circles = <<>>

(***************************************************************************)
(* Orphans                                                                 *)
(***************************************************************************)
\* C26: in every bundle returned without an error every edge is on the
\* boundary of at least one polygon of the bundle and every junction is an
\* endpoint of at least one edge of the bundle
C26_NoOrphans ==
  (served > 0 /\ last.result.error = "") =>
    /\ \A i \in DOMAIN last.result.white_lines : OnSomePolygon(last.result, i)
    /\ \A k \in DOMAIN last.result.blue_circles :
         EdgesAt(last.result, last.result.blue_circles[k]) # {}

\* an unfiltered bundle of a generation that traced edges no polygon uses
\* and junctions that only those edges reach
C26_Witness ==
  /\ served > 0 /\ ~last.hit /\ ~last.filtered /\ last.result.error = ""
  /\ last.result.polygons # <<>>
  /\ Len(last.result.white_lines) < Len(redis.white_lines)
  /\ Len(last.result.blue_circles) < Len(redis.blue_circles)

(***************************************************************************)
(* The cache against a fresh generation                                    *)
(***************************************************************************)
\* the bundles a generation for the coordinates of req returns when it does
\* not read the cache
FreshBundles(req) ==
  {o.result : o \in generate_map(world.ways, [req EXCEPT !.force_rebuild = TRUE],
                                  redis, cache)}

\* C27: the bundle an initial request without a restore-list gets from the
\* cache is a bundle that a fresh generation for the coordinates of the
\* request returns from the same roads
C27_CacheEqualsFresh ==
  (last.hit /\ last.req.mode = "initial" /\ last.req.restored = {}) =>
    last.result \in FreshBundles(last.req)

(***************************************************************************)
(* The attempts loop                                                       *)
(***************************************************************************)
\* one step of thread t keeps to the attempts loop: the first attempt is
\* attempt 1 and no attempt is beyond the last region size; the attempt
\* number changes only by one, to a larger region, after a fetch or a
\* polygon search that found nothing; once polygons were found the thread
\* finishes in the same attempt with a bundle; an error result is written
\* only by the attempt with the largest region
AttemptStep(t) ==
  /\ attempt[t] \in 1..3 /\ attempt'[t] \in 1..3
  /\ pc[t] = "start" => attempt[t] = 1
  /\ attempt'[t] # attempt[t] =>
        /\ attempt'[t] = attempt[t] + 1
        /\ REGION_SIZES[attempt'[t]] > REGION_SIZES[attempt[t]]
        /\ pc[t] \in {"fetch", "polygons"} /\ pc'[t] = "fetch"
        /\ loc'[t].polygons = <<>>
  /\ (pc[t] = "polygons" /\ loc'[t].polygons # <<>>) =>
        (pc'[t] = "finish" /\ attempt'[t] = attempt[t])
  /\ pc[t] = "finish" =>
        /\ attempt'[t] = attempt[t]
        /\ pc'[t] \in {"finish", "done"}
        /\ pc'[t] = "done" => out'[t].error = ""
  /\ (out'[t] # out[t] /\ out'[t].error # "") =>
        /\ attempt[t] = 3 /\ REGION_SIZES[attempt[t]] = 1000
        /\ pc[t] \in {"fetch", "polygons"}

\* C28: generate_map makes at most three attempts, with the region sizes
\* 0.0015, 0.005, 0.01 in this order, stops at the first attempt that finds
\* a polygon, and returns an error only after the attempt with the largest
\* region has failed
C28_AttemptsLoop ==
  [][REGION_SIZES = <<150, 500, 1000>> /\ \A t \in Threads : AttemptStep(t)]_vars

\* one thread returned a bundle from its first attempt, the other from its
\* second, after the smallest region held no road
C28_Witness ==
  \E t, u \in Threads :
     /\ pc[t] = "done" /\ out[t].error = "" /\ attempt[t] = 1 /\ ~cache_hit(rq[t], <<>>)
     /\ pc[u] = "done" /\ out[u].error = "" /\ attempt[u] = 2

(***************************************************************************)
(* The stored road lines across an expand fetch                            *)
(***************************************************************************)
\* this step is a fetch of thread t for an expand request
ExpandFetch(t) ==
  /\ rq[t].mode = "expand" /\ pc[t] = "fetch"
  /\ (pc'[t] # "fetch" \/ attempt'[t] # attempt[t])

\* the lines the servers return to thread t in this attempt
Fetched(t) ==
  LongWays(Overpass(world.ways, rq[t].lat, rq[t].lon, REGION_SIZES[attempt[t]]), 1)

PathSet(lines) == {lines[i] : i \in DOMAIN lines}

HasBlueEdges(poly) ==
  contains_debug_box(poly) = {FALSE} /\ poly.boundary_white_lines # {}

\* C21: when the merge loop returns before its iteration cap is used up, no
\* polygon of the returned list has blue edges
C21_ReturnsAtFixpoint ==
  loop.phase = "returned" =>
    \A k \in DOMAIN loop.polygons : ~HasBlueEdges(loop.polygons[k])

\* the fates of the input polygon with this id in the last pass
Fates(id) ==
  {f \in {"kept", "absorbed", "removed"} :
     \/ f = "kept" /\ id \in loop.kept_ids
     \/ f = "absorbed" /\ id \in loop.merged_ids
     \/ f = "removed" /\ id \in loop.removed_ids}

\* C29: in each pass of the merge loop every input polygon is kept as it is,
\* or absorbed into a merged polygon, or removed, and only one of the three;
\* none is kept in the output list and absorbed in the same pass
C29_OneFatePerPass ==
  loop.phase # "idle" =>
    /\ \A k \in DOMAIN loop.input : Cardinality(Fates(loop.input[k].id)) = 1
    /\ loop.kept_ids \cap loop.merged_ids = {}

====
